---- MODULE Spec2Model ----
(***************************************************************************)
(* A model of cmd/gitannex/gitannex.go: the git-annex external special     *)
(* remote protocol engine of rclone.                                       *)
(*                                                                         *)
(* A protocol line is a sequence of atoms.  An atom is the space SP, the   *)
(* carriage return CR, the newline LF, or a word (a non-empty run of other *)
(* characters, written as one TLA+ string).  strings.Cut(line, " ") is     *)
(* then the split at the first SP atom and strings.TrimRight(line, "\r\n") *)
(* the removal of the trailing CR and LF atoms.                            *)
(*                                                                         *)
(* One step of the model is what the single goroutine does between two     *)
(* blocking reads of the inbound stream: it reads one line (or the end of  *)
(* the stream) and runs until it blocks in the next getMsg or run returns. *)
(***************************************************************************)
EXTENDS Integers, Sequences, FiniteSets, TLC

(***************************************************************************)
(* Atoms and lines.                                                        *)
(***************************************************************************)
SP == " "
CR == "\r"
LF == "\n"

RECURSIVE Join(_)
\* the words of ws separated by single spaces ("a b c")
Join(ws) ==
    IF Len(ws) = 0 THEN <<>>
    ELSE IF Len(ws) = 1 THEN <<ws[1]>>
    ELSE <<ws[1], SP>> \o Join(Tail(ws))

\* a \o " " \o b
Cat(a, b) == a \o <<SP>> \o b

RECURSIVE TrimRight(_)
\* strings.TrimRight(line, "\r\n")
TrimRight(line) ==
    IF Len(line) > 0 /\ line[Len(line)] \in {CR, LF}
    THEN TrimRight(SubSeq(line, 1, Len(line) - 1))
    ELSE line

\* the index of the first SP atom of line, 0 when there is none
FirstSpace(line) ==
    IF \E i \in 1..Len(line) : line[i] = SP
    THEN CHOOSE i \in 1..Len(line) :
            line[i] = SP /\ \A j \in 1..(i - 1) : line[j] # SP
    ELSE 0

ErrNothingRemains == Join(<<"nothing", "remains", "to", "parse">>)
ErrEmptyParameter ==
    Join(<<"found", "an", "empty", "space-delimited", "parameter", "in", "line">>)

\* fault: what follows the last space is not yielded as a parameter
nextSpaceDelimitedParameterNoLast(mline) ==
    LET line == TrimRight(mline)
        i    == FirstSpace(line)
    IN  IF Len(line) = 0
        THEN [param |-> <<>>, err |-> ErrNothingRemains, line |-> line]
        ELSE IF i > 0
        THEN IF i = 1
             THEN [param |-> <<>>, err |-> ErrEmptyParameter, line |-> line]
             ELSE [param |-> SubSeq(line, 1, i - 1), err |-> <<>>,
                   line |-> SubSeq(line, i + 1, Len(line))]
        ELSE [param |-> <<>>, err |-> ErrNothingRemains, line |-> <<>>]

\* messageParser.nextSpaceDelimitedParameter: the parameter, whether it
\* failed (err # <<>>), and the line the parser is left with
nextSpaceDelimitedParameter(mline) ==
    LET line == TrimRight(mline)
        i    == FirstSpace(line)
    IN  IF Len(line) = 0
        THEN [param |-> <<>>, err |-> ErrNothingRemains, line |-> line]
        ELSE IF i > 0
        THEN IF i = 1
             THEN [param |-> <<>>, err |-> ErrEmptyParameter, line |-> line]
             ELSE [param |-> SubSeq(line, 1, i - 1), err |-> <<>>,
                   line |-> SubSeq(line, i + 1, Len(line))]
        ELSE [param |-> line, err |-> <<>>, line |-> <<>>]

\* messageParser.finalParameter: the rest of the line, which is consumed
finalParameter(mline) ==
    LET line == TrimRight(mline)
    IN  [param |-> line, line |-> <<>>]

(***************************************************************************)
(* The Config Registry.                                                    *)
(***************************************************************************)
defaultRclonePrefix == <<"git-annex-rclone">>
defaultRcloneLayout == <<"nodir">>

\* server.getRequiredConfigs: names (canonical first), the description, the
\* field the value goes to, and the default (a nil default is hasDefault =
\* FALSE)
getRequiredConfigs ==
    << [names |-> << <<"rcloneremotename">>, <<"target">> >>,
        description |-> <<"Name-of-the-rclone-remote-to-use.">>,
        destination |-> "configRcloneRemoteName",
        hasDefault |-> FALSE, defaultValue |-> <<>>],
       [names |-> << <<"rcloneprefix">>, <<"prefix">> >>,
        description |-> <<"Directory-where-rclone-will-write-git-annex-content.">>,
        destination |-> "configPrefix",
        hasDefault |-> TRUE, defaultValue |-> defaultRclonePrefix],
       [names |-> << <<"rclonelayout">>, <<"rclone_layout">> >>,
        description |-> <<"Defines-where-rclone-will-write-git-annex-content.">>,
        destination |-> "configRcloneLayout",
        hasDefault |-> TRUE, defaultValue |-> defaultRcloneLayout] >>

\* configDefinition.getCanonicalName
getCanonicalName(c) == c.names[1]

\* configDefinition.fullDescription: "(synonyms: a, b) description"
fullDescription(c) ==
    IF Len(c.names) <= 1 THEN c.description
    ELSE Cat(Cat(<<"(synonyms:">>,
                 c.names[2] \o <<")">>),
             c.description)

(***************************************************************************)
(* The state of the program.                                               *)
(***************************************************************************)
VARIABLES
    pc,             \* where the goroutine is: "start", "loop" (in getMsg of
                    \* run), "getconfig" (in getMsg of queryConfigs),
                    \* "dirhash" (in getMsg of queryDirhash), "returned" (run
                    \* has returned to Run), "exited", "panicked", "crashed"
    io,             \* what went over the two streams since run went to read
                    \* the command being handled (since the start, before
                    \* the first read), oldest first: the reads of s.reader
                    \* (dir "in") and the lines written to s.writer ("out")
    runErr,         \* the error run returned, <<>> for nil
    extensionInfo, extensionAsync,
    extensionGetGitRemoteName, extensionUnavailableResponse,
    configsDone, configPrefix, configRcloneRemoteName, configRcloneLayout,
    cfgIdx, nameIdx, \* queryConfigs: the definition and the name being asked
    command,        \* run: its first parameter
    argMode, argKey, argFile,   \* the handler's parsed arguments
    remoteObjs,     \* the remote store: <<fs string, key>> -> content
    localFiles,     \* the local files: path -> content
    calls           \* the Storage Delegate calls of the command being
                    \* handled, with their outcomes, oldest first

extVars == <<extensionInfo, extensionAsync,
             extensionGetGitRemoteName, extensionUnavailableResponse>>
cfgVars == <<configsDone, configPrefix, configRcloneRemoteName,
             configRcloneLayout, cfgIdx, nameIdx>>
cmdVars == <<command, argMode, argKey, argFile>>
storeVars == <<remoteObjs, localFiles>>
vars == <<pc, io, runErr, extVars, cfgVars, cmdVars, storeVars, calls>>

\* server.sendMsg: the message and a newline go to the writer
sendMsg(o, msg) == Append(o, [dir |-> "out", kind |-> "line", line |-> msg \o <<LF>>])

\* the read rd of the inbound stream, as it is recorded in io
In(rd) == [dir |-> "in", kind |-> rd.kind, line |-> rd.line]

(***************************************************************************)
(* Layout modes and the fs string (layout.go).                             *)
(***************************************************************************)
layoutModeUnknown == <<>>
allLayoutModes ==
    {<<"lower">>, <<"directory">>, <<"nodir">>, <<"mixed">>, <<"frankencase">>}

\* parseLayoutMode: the mode a config value names, else the unknown mode
parseLayoutMode(mode) ==
    IF mode \in allLayoutModes THEN mode ELSE layoutModeUnknown

\* buildFsString: whether the layout needs the controller's directory hash
needsDirhash(layout) == layout # <<"nodir">>

\* buildFsString: the query it hands to queryDirhash
dirhashQuery(layout, key) ==
    IF layout \in {<<"lower">>, <<"directory">>}
    THEN Cat(<<"DIRHASH-LOWER">>, key)
    ELSE Cat(<<"DIRHASH">>, key)

\* buildFsString: "remote:prefix" or "remote:prefix/dirhash[key]"
buildFsString(layout, key, remoteName, prefix, dirhash) ==
    IF layout = <<"nodir">> THEN remoteName \o <<":">> \o prefix
    ELSE IF layout = <<"directory">>
    THEN remoteName \o <<":">> \o prefix \o <<"/">> \o dirhash \o key
    ELSE remoteName \o <<":">> \o prefix \o <<"/">> \o dirhash

(***************************************************************************)
(* The Storage Delegate: what its calls can answer.                        *)
(***************************************************************************)
ErrorObjectNotFound == "ErrorObjectNotFound"

\* cache.Get: a handle, or an error
cacheGet == {"ok", "error"}

\* Fs.NewObject: the object when it is there, fs.ErrorObjectNotFound when it
\* is not, or another error
NewObject(store, fs, key) ==
    IF <<fs, key>> \in DOMAIN store THEN {"ok", "error"}
    ELSE {ErrorObjectNotFound, "error"}

\* operations.CopyFile: copies when the source is there, answers
\* fs.ErrorObjectNotFound when it is not, or fails with another error
CopyFile(srcExists) ==
    IF srcExists THEN {"ok", "error"} ELSE {ErrorObjectNotFound, "error"}

\* operations.DeleteFile: deletes, or fails
DeleteFile == {"ok", "error"}

\* config.GetRemoteNames
GetRemoteNames == {<<"myremote">>}

\* fs.Find: the backends that exist
Backends == {<<"local">>}

\* store with key k of fs f removed
Without(store, f, k) ==
    [x \in DOMAIN store \ {<<f, k>>} |-> store[x]]

\* store with key k of fs f holding content c
With(store, f, k, c) ==
    [x \in DOMAIN store \cup {<<f, k>>} |->
        IF x = <<f, k>> THEN c ELSE store[x]]

Call(op, arg, res) == [op |-> op, arg |-> arg, res |-> res]

(***************************************************************************)
(* How a handler ends a step.                                              *)
(***************************************************************************)
\* the handler returns err to run, which returns it when it is not nil and
\* otherwise goes to read the next command
Return(o, err, ro, lf, cs) ==
    /\ io' = o
    /\ runErr' = err
    /\ pc' = IF err = <<>> THEN "loop" ELSE "returned"
    /\ remoteObjs' = ro
    /\ localFiles' = lf
    /\ calls' = cs

\* fault: the query is sent a second time before its answer is read
BlockAskTwice(o, where, cs) ==
    /\ io' = Append(o, o[Len(o)])
    /\ runErr' = <<>>
    /\ pc' = where
    /\ UNCHANGED storeVars
    /\ calls' = cs

\* the handler blocks in the getMsg of queryConfigs or queryDirhash
Block(o, where, cs) ==
    /\ io' = o
    /\ runErr' = <<>>
    /\ pc' = where
    /\ UNCHANGED storeVars
    /\ calls' = cs

\* getMsg returned a nil message with a nil error and the caller called a
\* method of it: a nil pointer dereference, which panics
Crash(o) ==
    /\ pc' = "crashed"
    /\ io' = o
    /\ UNCHANGED <<runErr, storeVars, calls>>

(***************************************************************************)
(* INITREMOTE and PREPARE, from the return of queryConfigs on.             *)
(***************************************************************************)
\* fault: the trailing colon is not taken off
TrimSuffixColonNone(name) == name

\* strings.TrimSuffix(name, ":")
TrimSuffixColon(name) ==
    IF Len(name) > 0 /\ name[Len(name)] = ":"
    THEN SubSeq(name, 1, Len(name) - 1) ELSE name

\* strings.TrimPrefix(name, ":")
TrimPrefixColon(name) ==
    IF Len(name) > 0 /\ name[1] = ":" THEN Tail(name) ELSE name

\* fspath.Parse of a name that starts with ":": ":backend:path" has the name
\* ":backend" and the path "path"; anything else does not parse
fspathParse(name) ==
    IF Len(name) >= 3 /\ name[1] = ":" /\ name[2] \notin {":", "/"} /\ name[3] = ":"
    THEN [err |-> FALSE, Name |-> SubSeq(name, 1, 2),
          Path |-> SubSeq(name, 4, Len(name))]
    ELSE [err |-> TRUE, Name |-> <<>>, Path |-> <<>>]

\* server.handleInitRemote after s.queryConfigs() returned qerr
handleInitRemoteConfigs(o, qerr, name) ==
    LET trimmedName == TrimSuffixColon(name)
        maybeBackend == Len(name) > 0 /\ name[1] = ":"
        parsed == fspathParse(name)
        trimmedBackendName == TrimPrefixColon(parsed.Name)
        Fail(reason, what) ==
            Return(sendMsg(o, Cat(Cat(<<"INITREMOTE-FAILURE">>, Join(reason)), what)),
                   Cat(Join(reason), what), remoteObjs, localFiles, <<>>)
    IN  IF qerr # <<>>
        THEN Return(o, Cat(Join(<<"failed", "to", "get", "configs:">>), qerr),
                    remoteObjs, localFiles, <<>>)
        ELSE IF trimmedName \in GetRemoteNames
        THEN Return(sendMsg(o, <<"INITREMOTE-SUCCESS">>), <<>>,
                    remoteObjs, localFiles, <<>>)
        ELSE IF ~maybeBackend
        THEN Fail(<<"remote", "does", "not", "exist:">>, name)
        ELSE IF parsed.err
        THEN Fail(<<"remote", "could", "not", "be", "parsed", "as", "a", "backend:">>, name)
        ELSE IF parsed.Path # <<>>
        THEN Fail(<<"backend", "must", "not", "have", "a", "path:">>, name)
        ELSE IF trimmedBackendName \notin Backends
        THEN Fail(<<"backend", "does", "not", "exist:">>, trimmedBackendName)
        ELSE Return(sendMsg(o, <<"INITREMOTE-SUCCESS">>), <<>>,
                    remoteObjs, localFiles, <<>>)

\* fault: a failed resolution is answered but not returned, so the session
\* goes on with the fields it had assigned
handlePrepareConfigsLenient(o, qerr) ==
    IF qerr # <<>>
    THEN Return(sendMsg(o, Join(<<"PREPARE-FAILURE", "Error", "getting", "configs">>)),
                <<>>, remoteObjs, localFiles, <<>>)
    ELSE Return(sendMsg(o, <<"PREPARE-SUCCESS">>), <<>>,
                remoteObjs, localFiles, <<>>)

\* server.handlePrepare after s.queryConfigs() returned qerr
handlePrepareConfigs(o, qerr) ==
    IF qerr # <<>>
    THEN Return(sendMsg(o, Join(<<"PREPARE-FAILURE", "Error", "getting", "configs">>)),
                Cat(Join(<<"error", "getting", "configs:">>), qerr),
                remoteObjs, localFiles, <<>>)
    ELSE Return(sendMsg(o, <<"PREPARE-SUCCESS">>), <<>>,
                remoteObjs, localFiles, <<>>)

(***************************************************************************)
(* TRANSFER.                                                               *)
(***************************************************************************)
ErrGetRemoteFs == Join(<<"failed", "to", "get", "remote", "fs">>)
ErrGetLocalFs  == Join(<<"failed", "to", "get", "local", "fs">>)
ErrCopyFile    == Join(<<"failed", "to", "copy", "file:", "<err>">>)
ErrBuildFs     == Join(<<"error", "building", "fs", "string:">>)
ErrLayout      == Join(<<"error", "parsing", "layout", "mode:">>)

\* TRANSFER-FAILURE mode key reason / TRANSFER-SUCCESS mode key
TransferLine(kw, mode, key, reason) ==
    LET head == Cat(Cat(<<kw>>, mode), key)
    IN  IF reason = <<>> THEN head ELSE Cat(head, Join(reason))

\* fault: "not found" is not told from the other copy errors
retrieveNotFoundNever(c) == FALSE

\* server.handleTransfer, case "RETRIEVE": err == fs.ErrorObjectNotFound of
\* the error of operations.CopyFile
retrieveNotFound(c) == c = ErrorObjectNotFound

\* server.handleTransfer from cache.Get(remoteFsString) on: fsErr is the
\* error of buildFsString, <<>> for nil
handleTransferFs(o, fsErr, fs, mode, key, file) ==
    IF fsErr # <<>>
    THEN Return(sendMsg(o, Cat(<<"TRANSFER-FAILURE">>, key)),
                Cat(ErrBuildFs, fsErr), remoteObjs, localFiles, <<>>)
    ELSE \E g \in cacheGet :
      LET cs1 == <<Call("cache.Get", fs, g)>> IN
      IF g # "ok"
      THEN Return(sendMsg(o, TransferLine("TRANSFER-FAILURE", mode, key,
                                 <<"failed", "to", "get", "remote", "fs">>)),
                  ErrGetRemoteFs, remoteObjs, localFiles, cs1)
      ELSE \E l \in cacheGet :
        LET cs2 == Append(cs1, Call("cache.Get", file, l)) IN
        IF l # "ok"
        THEN Return(sendMsg(o, TransferLine("TRANSFER-FAILURE", mode, key,
                                   <<"failed", "to", "get", "local", "fs">>)),
                    ErrGetLocalFs, remoteObjs, localFiles, cs2)
        ELSE IF mode = <<"STORE">>
        THEN \E c \in CopyFile(file \in DOMAIN localFiles) :
          LET cs3 == Append(cs2, Call("CopyFile", <<"STORE", fs, key, file>>, c)) IN
          IF c # "ok"
          THEN Return(sendMsg(o, TransferLine("TRANSFER-FAILURE", mode, key,
                                     <<"failed", "to", "copy", "file:", "<err>">>)),
                      ErrCopyFile, remoteObjs, localFiles, cs3)
          ELSE Return(sendMsg(o, TransferLine("TRANSFER-SUCCESS", mode, key, <<>>)),
                      <<>>, With(remoteObjs, fs, key, localFiles[file]),
                      localFiles, cs3)
        ELSE IF mode = <<"RETRIEVE">>
        THEN \E c \in CopyFile(<<fs, key>> \in DOMAIN remoteObjs) :
          LET cs3 == Append(cs2, Call("CopyFile", <<"RETRIEVE", fs, key, file>>, c)) IN
          IF retrieveNotFound(c)
          THEN Return(sendMsg(o, TransferLine("TRANSFER-FAILURE", mode, key,
                                     <<"not", "found">>)),
                      <<>>, remoteObjs, localFiles, cs3)
          ELSE IF c # "ok"
          THEN Return(sendMsg(o, TransferLine("TRANSFER-FAILURE", mode, key,
                                     <<"failed", "to", "copy", "file:", "<err>">>)),
                      ErrCopyFile, remoteObjs, localFiles, cs3)
          ELSE Return(sendMsg(o, TransferLine("TRANSFER-SUCCESS", mode, key, <<>>)),
                      <<>>, remoteObjs,
                      [p \in DOMAIN localFiles \cup {file} |->
                          IF p = file THEN remoteObjs[<<fs, key>>]
                          ELSE localFiles[p]],
                      cs3)
        ELSE Return(sendMsg(o, TransferLine("TRANSFER-FAILURE", mode, key,
                                   <<"unrecognized", "mode">>)),
                    Cat(Join(<<"received", "malformed", "TRANSFER", "mode:">>), mode),
                    remoteObjs, localFiles, cs2)

\* server.handleTransfer after s.queryConfigs() returned qerr, up to the
\* call of buildFsString
handleTransferConfigs(o, qerr, mode, key, file, name, prefix, layoutStr) ==
    LET layout == parseLayoutMode(layoutStr) IN
    IF qerr # <<>>
    THEN Return(sendMsg(o, TransferLine("TRANSFER-FAILURE", mode, key,
                               <<"failed", "to", "get", "configs">>)),
                Cat(Join(<<"error", "getting", "configs:">>), qerr),
                remoteObjs, localFiles, <<>>)
    ELSE IF layout = layoutModeUnknown
    THEN Return(sendMsg(o, Cat(<<"TRANSFER-FAILURE">>, key)),
                Cat(ErrLayout, layoutStr), remoteObjs, localFiles, <<>>)
    ELSE IF needsDirhash(layout)
    THEN Block(sendMsg(o, dirhashQuery(layout, key)), "dirhash", <<>>)
    ELSE handleTransferFs(o, <<>>, buildFsString(layout, key, name, prefix, <<>>),
                          mode, key, file)

(***************************************************************************)
(* CHECKPRESENT.                                                           *)
(***************************************************************************)
\* fault: every lookup error is taken for "not found"
checkPresentReplyAbsent(n, key) ==
    IF n # "ok"
    THEN [msg |-> Cat(<<"CHECKPRESENT-FAILURE">>, key), err |-> <<>>]
    ELSE [msg |-> Cat(<<"CHECKPRESENT-SUCCESS">>, key), err |-> <<>>]

\* fault: "not found" is answered and also returned as an error
checkPresentReplyFatal(n, key) ==
    IF n = ErrorObjectNotFound
    THEN [msg |-> Cat(<<"CHECKPRESENT-FAILURE">>, key), err |-> <<"not", SP, "found">>]
    ELSE IF n # "ok"
    THEN [msg |-> Cat(Cat(<<"CHECKPRESENT-UNKNOWN">>, key),
                      Join(<<"error", "finding", "file">>)),
          err |-> <<"<err>">>]
    ELSE [msg |-> Cat(<<"CHECKPRESENT-SUCCESS">>, key), err |-> <<>>]

\* server.handleCheckPresent after remoteFs.NewObject answered n: the line it
\* sends and the error it returns
checkPresentReply(n, key) ==
    IF n = ErrorObjectNotFound
    THEN [msg |-> Cat(<<"CHECKPRESENT-FAILURE">>, key), err |-> <<>>]
    ELSE IF n # "ok"
    THEN [msg |-> Cat(Cat(<<"CHECKPRESENT-UNKNOWN">>, key),
                      Join(<<"error", "finding", "file">>)),
          err |-> Join(<<"error", "finding", "file">>)]
    ELSE [msg |-> Cat(<<"CHECKPRESENT-SUCCESS">>, key), err |-> <<>>]

\* server.handleCheckPresent from cache.Get(remoteFsString) on
handleCheckPresentFs(o, fsErr, fs, key) ==
    IF fsErr # <<>>
    THEN Return(sendMsg(o, Cat(<<"CHECKPRESENT-FAILURE">>, key)),
                Cat(ErrBuildFs, fsErr), remoteObjs, localFiles, <<>>)
    ELSE \E g \in cacheGet :
      LET cs1 == <<Call("cache.Get", fs, g)>> IN
      IF g # "ok"
      THEN Return(sendMsg(o, Cat(Cat(<<"CHECKPRESENT-UNKNOWN">>, key), ErrGetRemoteFs)),
                  ErrGetRemoteFs, remoteObjs, localFiles, cs1)
      ELSE \E n \in NewObject(remoteObjs, fs, key) :
        LET cs2 == Append(cs1, Call("NewObject", <<fs, key>>, n))
            r == checkPresentReply(n, key)
        IN  Return(sendMsg(o, r.msg), r.err, remoteObjs, localFiles, cs2)

\* server.handleCheckPresent after s.queryConfigs() returned qerr, up to the
\* call of buildFsString
handleCheckPresentConfigs(o, qerr, key, name, prefix, layoutStr) ==
    LET layout == parseLayoutMode(layoutStr) IN
    IF qerr # <<>>
    THEN Return(sendMsg(o, Cat(Cat(<<"CHECKPRESENT-FAILURE">>, key),
                               Join(<<"failed", "to", "get", "configs">>))),
                Cat(Join(<<"error", "getting", "configs:">>), qerr),
                remoteObjs, localFiles, <<>>)
    ELSE IF layout = layoutModeUnknown
    THEN Return(sendMsg(o, Cat(<<"CHECKPRESENT-FAILURE">>, key)),
                Cat(ErrLayout, layoutStr), remoteObjs, localFiles, <<>>)
    ELSE IF needsDirhash(layout)
    THEN Block(sendMsg(o, dirhashQuery(layout, key)), "dirhash", <<>>)
    ELSE handleCheckPresentFs(o, <<>>, buildFsString(layout, key, name, prefix, <<>>), key)

(***************************************************************************)
(* REMOVE.                                                                 *)
(***************************************************************************)
\* fault: "not found" is not told from the other lookup errors
removeNotFoundNever(n) == FALSE

\* server.handleRemove: errors.Is(err, fs.ErrorObjectNotFound) of the error
\* of remoteFs.NewObject
removeNotFound(n) == n = ErrorObjectNotFound

\* server.handleRemove from cache.Get(remoteFsString) on
handleRemoveFs(o, fsErr, fs, key) ==
    IF fsErr # <<>>
    THEN Return(sendMsg(o, Cat(<<"REMOVE-FAILURE">>, key)),
                Cat(ErrBuildFs, fsErr), remoteObjs, localFiles, <<>>)
    ELSE \E g \in cacheGet :
      LET cs1 == <<Call("cache.Get", fs, g)>> IN
      IF g # "ok"
      THEN Return(sendMsg(o, Cat(<<"REMOVE-FAILURE">>, key)),
                  Join(<<"error", "getting", "remote", "fs:", "<err>">>),
                  remoteObjs, localFiles, cs1)
      ELSE \E n \in NewObject(remoteObjs, fs, key) :
        LET cs2 == Append(cs1, Call("NewObject", <<fs, key>>, n)) IN
        IF removeNotFound(n)
        THEN Return(sendMsg(o, Cat(<<"REMOVE-SUCCESS">>, key)),
                    <<>>, remoteObjs, localFiles, cs2)
        ELSE IF n # "ok"
        THEN Return(sendMsg(o, Cat(Cat(<<"REMOVE-FAILURE">>, key),
                        Join(<<"error", "getting", "new", "fs", "object:", "<err>">>))),
                    Join(<<"error", "getting", "new", "fs", "object:", "<err>">>),
                    remoteObjs, localFiles, cs2)
        ELSE \E d \in DeleteFile :
          LET cs3 == Append(cs2, Call("DeleteFile", <<fs, key>>, d)) IN
          IF d # "ok"
          THEN Return(sendMsg(o, Cat(Cat(<<"REMOVE-FAILURE">>, key),
                                     Join(<<"error", "deleting", "file">>))),
                      Cat(Join(<<"error", "deleting", "file:">>), key),
                      remoteObjs, localFiles, cs3)
          ELSE Return(sendMsg(o, Cat(<<"REMOVE-SUCCESS">>, key)),
                      <<>>, Without(remoteObjs, fs, key), localFiles, cs3)

\* server.handleRemove from parseLayoutMode up to the call of buildFsString
handleRemoveLayout(o, key, name, prefix, layoutStr) ==
    LET layout == parseLayoutMode(layoutStr) IN
    IF layout = layoutModeUnknown
    THEN Return(sendMsg(o, Cat(<<"REMOVE-FAILURE">>, key)),
                Cat(ErrLayout, layoutStr), remoteObjs, localFiles, <<>>)
    ELSE IF needsDirhash(layout)
    THEN Block(sendMsg(o, dirhashQuery(layout, key)), "dirhash", <<>>)
    ELSE handleRemoveFs(o, <<>>, buildFsString(layout, key, name, prefix, <<>>), key)

(***************************************************************************)
(* What the controller may send.  A read of the inbound stream yields a    *)
(* line that ends with a newline, the end of the stream with no byte read  *)
(* ("eof"), or the end of the stream after a partial line ("partial").     *)
(***************************************************************************)
Keys == {<<"k1">>}
Files == {<<"dir/f1">>}

Line(l) == [kind |-> "line", line |-> l \o <<LF>>]
EndOfStream == [kind |-> "eof", line |-> <<>>]
PartialLine(l) == [kind |-> "partial", line |-> l]

CmdLines ==
    { <<"INITREMOTE">>, <<"PREPARE">>, <<"EXPORTSUPPORTED">>,
      <<"LISTCONFIGS">>, <<"GETCOST", CR>>, <<"GETAVAILABILITY">>,
      Join(<<"CLAIMURL", "u">>), Join(<<"CHECKURL", "u">>),
      Join(<<"WHEREIS", "k1">>), <<"GETINFO">>,
      Join(<<"ERROR", "boom">>),
      <<"FROBNICATE">>, <<>>, <<SP, "PREPARE">>,
      <<"TRANSFER">>, Join(<<"TRANSFER", "STORE">>),
      <<"CHECKPRESENT">>, <<"REMOVE">>,
      <<"EXTENSIONS">>, Join(<<"EXTENSIONS", "FOO", "ASYNC">>),
      Join(<<"EXTENSIONS", "INFO", "GETGITREMOTENAME", "UNAVAILABLERESPONSE">>),
      <<"EXTENSIONS", SP, "INFO", SP, SP, "ASYNC">> }
    \cup { Cat(<<"TRANSFER">>, Cat(<<"STORE">>, k)) : k \in Keys }
    \cup { Cat(<<"TRANSFER">>, Cat(m, Cat(k, f))) :
             m \in {<<"STORE">>, <<"RETRIEVE">>, <<"FETCH">>}, k \in Keys, f \in Files }
    \cup { Cat(<<"CHECKPRESENT">>, k) : k \in Keys }
    \cup { Cat(<<"REMOVE">>, k) : k \in Keys }

\* the values the controller may hold for the i-th config definition
ConfigValues(i) ==
    CASE i = 1 -> {<<"myremote">>, <<"nope">>, <<":", "local", ":">>}
      [] i = 2 -> {<<"pfx">>}
      [] i = 3 -> {<<"lower">>, <<"bogus">>}

\* what the controller may answer to GETCONFIG of a name of definition i
ConfigReads(i) ==
    { Line(Cat(<<"VALUE">>, v)) : v \in ConfigValues(i) }
    \cup { Line(<<"VALUE", SP>>), Line(Join(<<"ERROR", "boom">>)),
           EndOfStream, PartialLine(<<"VAL">>) }

\* what the controller may answer to DIRHASH and DIRHASH-LOWER
DirhashReads ==
    { Line(Join(<<"VALUE", "abc/def/">>)), Line(<<"VALUE">>),
      Line(<<"UNSUPPORTED-REQUEST">>), Line(<<>>),
      EndOfStream, PartialLine(<<"VAL">>) }

\* fault: the end of the stream is an error whether or not bytes are pending
getMsgErrAlways(rd) ==
    IF rd.kind = "partial"
    THEN Cat(Join(<<"expected", "message", "to", "end", "with", "newline:">>), rd.line)
    ELSE IF rd.kind = "eof" THEN <<"EOF">>
    ELSE <<>>

\* server.getMsg: the error it returns, <<>> for nil
getMsgErr(rd) ==
    IF rd.kind = "partial"
    THEN Cat(Join(<<"expected", "message", "to", "end", "with", "newline:">>), rd.line)
    ELSE <<>>

(***************************************************************************)
(* queryConfigs and queryDirhash.                                          *)
(***************************************************************************)
\* fault: the check for an empty value is left out
valueReceivedAlways(value) == TRUE

\* server.queryConfigs: a name's value counts when it is not empty
valueReceived(value) == value # <<>>

\* fault: the keyword of the answer is not compared with VALUE
queryConfigsStepAnyKeyword(i, j, rd) ==
    LET config == getRequiredConfigs[i]
        kw == nextSpaceDelimitedParameter(rd.line)
        value == finalParameter(kw.line).param
        R(kind, assign, v, ni, nj, err) ==
            [kind |-> kind, assign |-> assign, value |-> v,
             i |-> ni, j |-> nj, err |-> err]
        Advance(v) ==
            IF i < Len(getRequiredConfigs)
            THEN R("ask", TRUE, v, i + 1, 1, <<>>)
            ELSE R("done", TRUE, v, 0, 0, <<>>)
    IN  IF getMsgErr(rd) # <<>>
        THEN R("fail", FALSE, <<>>, 0, 0, getMsgErr(rd))
        ELSE IF rd.kind = "eof"
        THEN R("crash", FALSE, <<>>, 0, 0, <<>>)
        ELSE IF kw.err # <<>>
        THEN R("fail", FALSE, <<>>, 0, 0,
               Join(<<"failed", "to", "parse", "config", "value:">>) \o <<SP>>
                   \o kw.param \o <<SP>> \o kw.line)
        ELSE IF valueReceived(value)
        THEN Advance(value)
        ELSE IF j < Len(config.names)
        THEN R("ask", FALSE, <<>>, i, j + 1, <<>>)
        ELSE IF ~config.hasDefault
        THEN R("fail", FALSE, <<>>, 0, 0,
               Cat(Join(<<"did", "not", "receive", "a", "non-empty",
                          "config", "value", "for">>),
                   getCanonicalName(config)))
        ELSE Advance(config.defaultValue)

\* server.queryConfigs, one turn of its inner loop: rd answers the GETCONFIG
\* of name j of definition i.  The result says what follows: "ask" the name
\* (i, j) next, "done", "fail" with err, or "crash"; and whether the
\* definition's destination was assigned value.
queryConfigsStep(i, j, rd) ==
    LET config == getRequiredConfigs[i]
        kw == nextSpaceDelimitedParameter(rd.line)
        value == finalParameter(kw.line).param
        R(kind, assign, v, ni, nj, err) ==
            [kind |-> kind, assign |-> assign, value |-> v,
             i |-> ni, j |-> nj, err |-> err]
        Advance(v) ==
            IF i < Len(getRequiredConfigs)
            THEN R("ask", TRUE, v, i + 1, 1, <<>>)
            ELSE R("done", TRUE, v, 0, 0, <<>>)
    IN  IF getMsgErr(rd) # <<>>
        THEN R("fail", FALSE, <<>>, 0, 0, getMsgErr(rd))
        ELSE IF rd.kind = "eof"
        THEN R("crash", FALSE, <<>>, 0, 0, <<>>)
        ELSE IF kw.err # <<>> \/ kw.param # <<"VALUE">>
        THEN R("fail", FALSE, <<>>, 0, 0,
               Join(<<"failed", "to", "parse", "config", "value:">>) \o <<SP>>
                   \o kw.param \o <<SP>> \o kw.line)
        ELSE IF valueReceived(value)
        THEN Advance(value)
        ELSE IF j < Len(config.names)
        THEN R("ask", FALSE, <<>>, i, j + 1, <<>>)
        ELSE IF ~config.hasDefault
        THEN R("fail", FALSE, <<>>, 0, 0,
               Cat(Join(<<"did", "not", "receive", "a", "non-empty",
                          "config", "value", "for">>),
                   getCanonicalName(config)))
        ELSE Advance(config.defaultValue)

\* fault: the names of a definition are asked last first
GetConfigMsgSynonymFirst(i, j) ==
    Cat(<<"GETCONFIG">>,
        getRequiredConfigs[i].names[Len(getRequiredConfigs[i].names) + 1 - j])

\* the GETCONFIG message for name j of definition i
GetConfigMsg(i, j) == Cat(<<"GETCONFIG">>, getRequiredConfigs[i].names[j])

\* server.queryDirhash after its sendMsg: the dirhash, the error (<<>> for
\* nil), and whether it dereferenced a nil message
queryDirhash(rd) ==
    LET kw == nextSpaceDelimitedParameter(rd.line)
        dh == nextSpaceDelimitedParameter(kw.line)
        R(crash, err, v) == [crash |-> crash, err |-> err, dirhash |-> v]
    IN  IF getMsgErr(rd) # <<>> THEN R(FALSE, getMsgErr(rd), <<>>)
        ELSE IF rd.kind = "eof" THEN R(TRUE, <<>>, <<>>)
        ELSE IF kw.err # <<>> THEN R(FALSE, kw.err, <<>>)
        ELSE IF kw.param # <<"VALUE">>
        THEN R(FALSE, Cat(Join(<<"expected", "VALUE", "keyword,", "but", "got">>),
                          kw.param), <<>>)
        ELSE IF dh.err # <<>>
        THEN R(FALSE, Cat(Join(<<"failed", "to", "parse", "dirhash:">>), dh.err), <<>>)
        ELSE R(FALSE, <<>>, dh.param)

(***************************************************************************)
(* The session.                                                            *)
(***************************************************************************)
DefaultFs == <<"myremote", ":", "git-annex-rclone">>

Init ==
    /\ pc = "start"
    /\ io = <<>>
    /\ runErr = <<>>
    /\ extensionInfo = FALSE
    /\ extensionAsync = FALSE
    /\ extensionGetGitRemoteName = FALSE
    /\ extensionUnavailableResponse = FALSE
    /\ configsDone = FALSE
    /\ configPrefix = <<>>
    /\ configRcloneRemoteName = <<>>
    /\ configRcloneLayout = <<>>
    /\ cfgIdx = 0
    /\ nameIdx = 0
    /\ command = <<>>
    /\ argMode = <<>>
    /\ argKey = <<>>
    /\ argFile = <<>>
    /\ remoteObjs \in { <<>>, [x \in {<<DefaultFs, <<"k1">> >>} |-> "c0"] }
    /\ localFiles = [p \in Files |-> "c1"]
    /\ calls = <<>>

\* fault: run enters its loop without the first message
StartSilent ==
    /\ pc = "start"
    /\ pc' = "loop"
    /\ UNCHANGED <<io, runErr, extVars, cfgVars, cmdVars, storeVars, calls>>

\* server.run: the remote sends the first message
Start ==
    /\ pc = "start"
    /\ io' = sendMsg(io, Join(<<"VERSION", "1">>))
    /\ pc' = "loop"
    /\ UNCHANGED <<runErr, extVars, cfgVars, cmdVars, storeVars, calls>>

\* the lines the controller may send as commands
CmdReads == { Line(l) : l \in CmdLines }

\* server.run: message.nextSpaceDelimitedParameter() of each of them
Parsed == [rd \in CmdReads |-> nextSpaceDelimitedParameter(rd.line)]

\* server.run: getMsg yields the line rd, whose first parameter parses
Recv(rd) ==
    /\ pc = "loop"
    /\ Parsed[rd].err = <<>>
    /\ command' = Parsed[rd].param

\* the parser of the message after run has taken the command off it
Rest(rd) == Parsed[rd].line

NoArgs == argMode' = <<>> /\ argKey' = <<>> /\ argFile' = <<>>

\* the handler that called queryConfigs goes on with its result
AfterConfigs(c, o, qerr, mode, key, file, name, prefix, layoutStr) ==
    CASE c = <<"INITREMOTE">> -> handleInitRemoteConfigs(o, qerr, name)
      [] c = <<"PREPARE">> -> handlePrepareConfigs(o, qerr)
      [] c = <<"TRANSFER">> ->
            handleTransferConfigs(o, qerr, mode, key, file, name, prefix, layoutStr)
      [] c = <<"CHECKPRESENT">> ->
            handleCheckPresentConfigs(o, qerr, key, name, prefix, layoutStr)

\* fault: queryConfigs without its configsDone check, which asks every time
queryConfigsAlways(c, o, mode, key, file) ==
    /\ cfgIdx' = 1
    /\ nameIdx' = 1
    /\ UNCHANGED <<configsDone, configPrefix, configRcloneRemoteName,
                   configRcloneLayout>>
    /\ Block(sendMsg(o, GetConfigMsg(1, 1)), "getconfig", <<>>)

\* server.queryConfigs, called by the handler of command c: nothing to do when
\* the configs are resolved, else the first GETCONFIG goes out
queryConfigs(c, o, mode, key, file) ==
    IF configsDone
    THEN /\ UNCHANGED cfgVars
         /\ AfterConfigs(c, o, <<>>, mode, key, file,
                         configRcloneRemoteName, configPrefix, configRcloneLayout)
    ELSE /\ cfgIdx' = 1
         /\ nameIdx' = 1
         /\ UNCHANGED <<configsDone, configPrefix, configRcloneRemoteName,
                        configRcloneLayout>>
         /\ Block(sendMsg(o, GetConfigMsg(1, 1)), "getconfig", <<>>)

\* server.queryConfigs: the answer to a GETCONFIG arrives, one of rds
QueryConfigsAnswer(rds) ==
    /\ pc = "getconfig"
    /\ \E rd \in rds :
        LET r == queryConfigsStep(cfgIdx, nameIdx, rd)
            dest == getRequiredConfigs[cfgIdx].destination
            New(field, old) == IF r.assign /\ dest = field THEN r.value ELSE old
            name == New("configRcloneRemoteName", configRcloneRemoteName)
            prefix == New("configPrefix", configPrefix)
            layoutStr == New("configRcloneLayout", configRcloneLayout)
            o == Append(io, In(rd))
        IN  /\ configRcloneRemoteName' = name
            /\ configPrefix' = prefix
            /\ configRcloneLayout' = layoutStr
            /\ configsDone' = (r.kind = "done")
            /\ cfgIdx' = r.i
            /\ nameIdx' = r.j
            /\ CASE r.kind = "crash" -> Crash(o)
                 [] r.kind = "ask" ->
                      Block(sendMsg(o, GetConfigMsg(r.i, r.j)), "getconfig", calls)
                 [] r.kind = "done" ->
                      AfterConfigs(command, o, <<>>, argMode, argKey, argFile,
                                   name, prefix, layoutStr)
                 [] r.kind = "fail" ->
                      AfterConfigs(command, o, r.err, argMode, argKey, argFile,
                                   name, prefix, layoutStr)
    /\ UNCHANGED <<extVars, cmdVars>>

\* server.queryConfigs: the answer to a GETCONFIG arrives
QueryConfigsReply == QueryConfigsAnswer(ConfigReads(cfgIdx))

\* server.queryDirhash: the answer to DIRHASH arrives, and buildFsString
\* and the handler that called it go on
QueryDirhashReply ==
    /\ pc = "dirhash"
    /\ \E rd \in DirhashReads :
        LET r == queryDirhash(rd)
            fs == buildFsString(parseLayoutMode(configRcloneLayout), argKey,
                                configRcloneRemoteName, configPrefix, r.dirhash)
            o == Append(io, In(rd))
        IN  IF r.crash THEN Crash(o)
            ELSE CASE command = <<"TRANSFER">> ->
                        handleTransferFs(o, r.err, fs, argMode, argKey, argFile)
                   [] command = <<"CHECKPRESENT">> ->
                        handleCheckPresentFs(o, r.err, fs, argKey)
                   [] command = <<"REMOVE">> ->
                        handleRemoveFs(o, r.err, fs, argKey)
    /\ UNCHANGED <<extVars, cfgVars, cmdVars>>

(***************************************************************************)
(* server.run: one action for each case of its dispatch.                   *)
(***************************************************************************)
KnownCommands ==
    { <<"INITREMOTE">>, <<"PREPARE">>, <<"EXPORTSUPPORTED">>, <<"TRANSFER">>,
      <<"CHECKPRESENT">>, <<"REMOVE">>, <<"ERROR">>, <<"EXTENSIONS">>,
      <<"LISTCONFIGS">>, <<"GETCOST">>, <<"GETAVAILABILITY">>,
      <<"CLAIMURL">>, <<"CHECKURL">>, <<"WHEREIS">>, <<"GETINFO">> }

\* the command lines that run dispatches to the case of command c
ReadsOf ==
    [c \in KnownCommands |->
        { rd \in CmdReads : Parsed[rd].err = <<>> /\ Parsed[rd].param = c }]

\* the command lines that run dispatches to its default case
UnknownReads ==
    { rd \in CmdReads : Parsed[rd].err = <<>> /\ Parsed[rd].param \notin KnownCommands }

\* a case of run that only sends msg
Reply(rd, msg) ==
    /\ NoArgs
    /\ Return(sendMsg(<<In(rd)>>, msg), <<>>, remoteObjs, localFiles, <<>>)
    /\ UNCHANGED <<extVars, cfgVars>>

\* the ways the inbound stream may end
EndReads == { EndOfStream, PartialLine(<<"PREP">>) }

\* run returns err without having called a handler
Leave(rd, err) ==
    /\ pc' = "returned"
    /\ runErr' = err
    /\ io' = <<In(rd)>>
    /\ command' = <<>>
    /\ NoArgs
    /\ calls' = <<>>
    /\ UNCHANGED <<extVars, cfgVars, storeVars>>

\* run: getMsg reads the end of the stream with no byte pending: the message
\* is nil, the loop breaks and run returns nil
RecvEOF ==
    /\ pc = "loop"
    /\ \E rd \in EndReads :
        /\ getMsgErr(rd) = <<>>
        /\ Leave(rd, <<>>)

\* run: getMsg fails
RecvPartial ==
    /\ pc = "loop"
    /\ \E rd \in EndReads :
        /\ getMsgErr(rd) # <<>>
        /\ Leave(rd, Cat(Join(<<"error", "receiving", "message:">>), getMsgErr(rd)))

\* run: the command of the line does not parse
RecvUnparsable ==
    /\ pc = "loop"
    /\ \E rd \in CmdReads :
        /\ Parsed[rd].err # <<>>
        /\ Leave(rd, Join(<<"failed", "to", "parse", "command">>))

\* case "INITREMOTE": server.handleInitRemote
HandleInitRemote ==
    \E rd \in ReadsOf[<<"INITREMOTE">>] :
        /\ Recv(rd)
        /\ command' = <<"INITREMOTE">>
        /\ NoArgs
        /\ queryConfigs(<<"INITREMOTE">>, <<In(rd)>>, <<>>, <<>>, <<>>)
        /\ UNCHANGED extVars

\* case "PREPARE": server.handlePrepare
HandlePrepare ==
    \E rd \in ReadsOf[<<"PREPARE">>] :
        /\ Recv(rd)
        /\ command' = <<"PREPARE">>
        /\ NoArgs
        /\ queryConfigs(<<"PREPARE">>, <<In(rd)>>, <<>>, <<>>, <<>>)
        /\ UNCHANGED extVars

\* case "EXPORTSUPPORTED"
HandleExportSupported ==
    \E rd \in ReadsOf[<<"EXPORTSUPPORTED">>] :
        /\ Recv(rd)
        /\ command' = <<"EXPORTSUPPORTED">>
        /\ Reply(rd, <<"EXPORTSUPPORTED-FAILURE">>)

\* case "TRANSFER": server.handleTransfer
HandleTransfer ==
    \E rd \in ReadsOf[<<"TRANSFER">>] :
        /\ Recv(rd)
        /\ command' = <<"TRANSFER">>
        /\ LET mode == nextSpaceDelimitedParameter(Rest(rd))
               key  == nextSpaceDelimitedParameter(mode.line)
               file == finalParameter(key.line)
               Malformed(reason, err) ==
                   /\ Return(sendMsg(<<In(rd)>>, Cat(<<"TRANSFER-FAILURE">>, Join(reason))),
                             err, remoteObjs, localFiles, <<>>)
                   /\ UNCHANGED cfgVars
           IN  /\ argMode' = mode.param
               /\ argKey' = IF mode.err = <<>> THEN key.param ELSE <<>>
               /\ argFile' = IF mode.err = <<>> /\ key.err = <<>>
                             THEN file.param ELSE <<>>
               /\ IF mode.err # <<>>
                  THEN Malformed(<<"failed", "to", "parse", "direction">>,
                           Cat(Join(<<"malformed", "arguments", "for", "TRANSFER:">>),
                               mode.err))
                  ELSE IF key.err # <<>>
                  THEN Malformed(<<"failed", "to", "parse", "key">>,
                           Cat(Join(<<"malformed", "arguments", "for", "TRANSFER:">>),
                               key.err))
                  ELSE IF file.param = <<>>
                  THEN Malformed(<<"failed", "to", "parse", "file", "path">>,
                           Join(<<"failed", "to", "parse", "file", "path">>))
                  ELSE queryConfigs(<<"TRANSFER">>, <<In(rd)>>,
                                    mode.param, key.param, file.param)
        /\ UNCHANGED extVars

\* case "CHECKPRESENT": server.handleCheckPresent
HandleCheckPresent ==
    \E rd \in ReadsOf[<<"CHECKPRESENT">>] :
        /\ Recv(rd)
        /\ command' = <<"CHECKPRESENT">>
        /\ LET key == finalParameter(Rest(rd)).param
           IN  /\ argMode' = <<>> /\ argKey' = key /\ argFile' = <<>>
               /\ IF key = <<>>
                  THEN /\ Return(<<In(rd)>>, Join(<<"failed", "to", "parse", "response",
                                             "for", "CHECKPRESENT">>),
                                 remoteObjs, localFiles, <<>>)
                       /\ UNCHANGED cfgVars
                  ELSE queryConfigs(<<"CHECKPRESENT">>, <<In(rd)>>, <<>>, key, <<>>)
        /\ UNCHANGED extVars

\* fault: handleRemove resolves the configs first, as handleCheckPresent does
HandleRemoveResolving ==
    \E rd \in ReadsOf[<<"REMOVE">>] :
        /\ Recv(rd)
        /\ command' = <<"REMOVE">>
        /\ LET key == finalParameter(Rest(rd)).param
           IN  /\ argMode' = <<>> /\ argKey' = key /\ argFile' = <<>>
               /\ IF key = <<>>
                  THEN /\ Return(<<In(rd)>>, Join(<<"failed", "to", "parse", "key",
                                             "for", "REMOVE">>),
                                 remoteObjs, localFiles, <<>>)
                       /\ UNCHANGED cfgVars
                  ELSE IF configsDone
                  THEN /\ handleRemoveLayout(<<In(rd)>>, key, configRcloneRemoteName,
                                             configPrefix, configRcloneLayout)
                       /\ UNCHANGED cfgVars
                  ELSE /\ cfgIdx' = 1
                       /\ nameIdx' = 1
                       /\ UNCHANGED <<configsDone, configPrefix,
                                      configRcloneRemoteName, configRcloneLayout>>
                       /\ Block(sendMsg(<<In(rd)>>, GetConfigMsg(1, 1)), "getconfig", <<>>)
        /\ UNCHANGED extVars

\* case "REMOVE": server.handleRemove
HandleRemove ==
    \E rd \in ReadsOf[<<"REMOVE">>] :
        /\ Recv(rd)
        /\ command' = <<"REMOVE">>
        /\ LET key == finalParameter(Rest(rd)).param
           IN  /\ argMode' = <<>> /\ argKey' = key /\ argFile' = <<>>
               /\ IF key = <<>>
                  THEN Return(<<In(rd)>>, Join(<<"failed", "to", "parse", "key",
                                          "for", "REMOVE">>),
                              remoteObjs, localFiles, <<>>)
                  ELSE handleRemoveLayout(<<In(rd)>>, key, configRcloneRemoteName,
                                          configPrefix, configRcloneLayout)
        /\ UNCHANGED <<extVars, cfgVars>>

\* case "ERROR"
HandleError ==
    \E rd \in ReadsOf[<<"ERROR">>] :
        /\ Recv(rd)
        /\ command' = <<"ERROR">>
        /\ NoArgs
        /\ Return(<<In(rd)>>, Cat(Join(<<"received", "error", "message", "from", "git-annex:">>),
                           finalParameter(Rest(rd)).param),
                  remoteObjs, localFiles, <<>>)
        /\ UNCHANGED <<extVars, cfgVars>>

\* fault: ASYNC is recorded as INFO
setExtensionMixed(flags, extension) ==
    CASE extension = <<"INFO">> -> [flags EXCEPT !.extensionInfo = TRUE]
      [] extension = <<"ASYNC">> -> [flags EXCEPT !.extensionInfo = TRUE]
      [] extension = <<"GETGITREMOTENAME">> ->
            [flags EXCEPT !.extensionGetGitRemoteName = TRUE]
      [] extension = <<"UNAVAILABLERESPONSE">> ->
            [flags EXCEPT !.extensionUnavailableResponse = TRUE]
      [] OTHER -> flags

\* server.handleExtensions, its switch: the flags after the extension is
\* taken
setExtension(flags, extension) ==
    CASE extension = <<"INFO">> -> [flags EXCEPT !.extensionInfo = TRUE]
      [] extension = <<"ASYNC">> -> [flags EXCEPT !.extensionAsync = TRUE]
      [] extension = <<"GETGITREMOTENAME">> ->
            [flags EXCEPT !.extensionGetGitRemoteName = TRUE]
      [] extension = <<"UNAVAILABLERESPONSE">> ->
            [flags EXCEPT !.extensionUnavailableResponse = TRUE]
      [] OTHER -> flags

RECURSIVE handleExtensionsLoop(_, _)
\* server.handleExtensions, its loop: the flags after the parameters left in
\* line have been taken, up to the first one that does not parse
handleExtensionsLoop(line, flags) ==
    LET e == nextSpaceDelimitedParameter(line) IN
    IF e.err # <<>> THEN flags
    ELSE handleExtensionsLoop(e.line, setExtension(flags, e.param))

\* fault: the handler starts from cleared flags
FlagsCleared ==
    [extensionInfo |-> FALSE,
     extensionAsync |-> FALSE,
     extensionGetGitRemoteName |-> FALSE,
     extensionUnavailableResponse |-> FALSE]

\* the four extension flags of the server as a record
Flags ==
    [extensionInfo |-> extensionInfo,
     extensionAsync |-> extensionAsync,
     extensionGetGitRemoteName |-> extensionGetGitRemoteName,
     extensionUnavailableResponse |-> extensionUnavailableResponse]

\* case "EXTENSIONS": server.handleExtensions
HandleExtensions ==
    \E rd \in ReadsOf[<<"EXTENSIONS">>] :
        /\ Recv(rd)
        /\ command' = <<"EXTENSIONS">>
        /\ NoArgs
        /\ LET f == handleExtensionsLoop(Rest(rd), Flags)
           IN  /\ extensionInfo' = f.extensionInfo
               /\ extensionAsync' = f.extensionAsync
               /\ extensionGetGitRemoteName' = f.extensionGetGitRemoteName
               /\ extensionUnavailableResponse' = f.extensionUnavailableResponse
        /\ Return(sendMsg(<<In(rd)>>, <<"EXTENSIONS">>), <<>>, remoteObjs, localFiles, <<>>)
        /\ UNCHANGED cfgVars

RECURSIVE listConfigsFrom(_, _)
\* server.handleListConfigs, its loop from definition i on
listConfigsFrom(o, i) ==
    IF i > Len(getRequiredConfigs) THEN o
    ELSE listConfigsFrom(
            sendMsg(o, Cat(Cat(<<"CONFIG">>, getCanonicalName(getRequiredConfigs[i])),
                           fullDescription(getRequiredConfigs[i]))),
            i + 1)

\* case "LISTCONFIGS": server.handleListConfigs
HandleListConfigs ==
    \E rd \in ReadsOf[<<"LISTCONFIGS">>] :
        /\ Recv(rd)
        /\ command' = <<"LISTCONFIGS">>
        /\ NoArgs
        /\ Return(sendMsg(listConfigsFrom(<<In(rd)>>, 1), <<"CONFIGEND">>), <<>>,
                  remoteObjs, localFiles, <<>>)
        /\ UNCHANGED <<extVars, cfgVars>>

\* fault: GETCOST is taken without an answer
HandleGetCostSilent ==
    \E rd \in ReadsOf[<<"GETCOST">>] :
        /\ Recv(rd)
        /\ command' = <<"GETCOST">>
        /\ NoArgs
        /\ Return(<<In(rd)>>, <<>>, remoteObjs, localFiles, <<>>)
        /\ UNCHANGED <<extVars, cfgVars>>

\* case "GETCOST"
HandleGetCost ==
    \E rd \in ReadsOf[<<"GETCOST">>] :
        /\ Recv(rd)
        /\ command' = <<"GETCOST">>
        /\ Reply(rd, Join(<<"COST", "200">>))

\* case "GETAVAILABILITY"
HandleGetAvailability ==
    \E rd \in ReadsOf[<<"GETAVAILABILITY">>] :
        /\ Recv(rd)
        /\ command' = <<"GETAVAILABILITY">>
        /\ Reply(rd, Join(<<"AVAILABILITY", "GLOBAL">>))

\* case "CLAIMURL", "CHECKURL", "WHEREIS", "GETINFO"
HandleUnsupported ==
    \E rd \in (ReadsOf[<<"CLAIMURL">>] \cup ReadsOf[<<"CHECKURL">>]
               \cup ReadsOf[<<"WHEREIS">>] \cup ReadsOf[<<"GETINFO">>]) :
        /\ Recv(rd)
        /\ command' \in {<<"CLAIMURL">>, <<"CHECKURL">>, <<"WHEREIS">>, <<"GETINFO">>}
        /\ Reply(rd, <<"UNSUPPORTED-REQUEST">>)

\* fault: a command run does not know is answered as an unsupported request
HandleUnknownUnsupported ==
    \E rd \in UnknownReads :
        /\ Recv(rd)
        /\ command' \notin KnownCommands
        /\ Reply(rd, <<"UNSUPPORTED-REQUEST">>)

\* default: the command is not one run knows
HandleUnknown ==
    \E rd \in UnknownReads :
        /\ Recv(rd)
        /\ command' \notin KnownCommands
        /\ NoArgs
        /\ Return(<<In(rd)>>, Cat(Join(<<"received", "unexpected", "message",
                                  "from", "git-annex:">>), Rest(rd)),
                  remoteObjs, localFiles, <<>>)
        /\ UNCHANGED <<extVars, cfgVars>>

\* command.Run: run returned an error; Run sends it and panics
RunPanic ==
    /\ pc = "returned"
    /\ runErr # <<>>
    /\ io' = sendMsg(io, Cat(<<"ERROR">>, runErr))
    /\ pc' = "panicked"
    /\ UNCHANGED <<runErr, extVars, cfgVars, cmdVars, storeVars, calls>>

\* command.Run: run returned nil
RunExit ==
    /\ pc = "returned"
    /\ runErr = <<>>
    /\ pc' = "exited"
    /\ UNCHANGED <<io, runErr, extVars, cfgVars, cmdVars, storeVars, calls>>

Next ==
    \/ Start
    \/ RecvEOF
    \/ RecvPartial
    \/ RecvUnparsable
    \/ HandleInitRemote
    \/ HandlePrepare
    \/ HandleExportSupported
    \/ HandleTransfer
    \/ HandleCheckPresent
    \/ HandleRemove
    \/ HandleError
    \/ HandleExtensions
    \/ HandleListConfigs
    \/ HandleGetCost
    \/ HandleGetAvailability
    \/ HandleUnsupported
    \/ HandleUnknown
    \/ QueryConfigsReply
    \/ QueryDirhashReply
    \/ RunPanic
    \/ RunExit

Spec == Init /\ [][Next]_vars

(***************************************************************************)
(* Sessions of INITREMOTE and PREPARE only, in which the controller may    *)
(* hold any of a wider choice of remote names.                             *)
(***************************************************************************)
\* the remote names the controller may hold: a remote, a remote with its
\* colon, no remote, a backend, a backend that does not exist, a backend
\* with a path, a backend without its closing colon
RemoteNameValues ==
    { <<"myremote">>, <<"myremote", ":">>, <<"nope">>,
      <<":", "local", ":">>, <<":", "nobackend", ":">>,
      <<":", "local", ":", "/", "data">>, <<":", "local">> }

\* what the controller may answer to GETCONFIG of a name of definition i
RemoteNameReads(i) ==
    IF i = 1
    THEN { Line(Cat(<<"VALUE">>, v)) : v \in RemoteNameValues }
            \cup { Line(<<"VALUE", SP>>), Line(Join(<<"ERROR", "boom">>)),
                   Line(<<>>), EndOfStream, PartialLine(<<"VAL">>) }
    ELSE ConfigReads(i)

\* server.queryConfigs: the answer to a GETCONFIG arrives
QueryConfigsReplyRemoteName == QueryConfigsAnswer(RemoteNameReads(cfgIdx))

NextInitRemote ==
    \/ Start
    \/ RecvEOF
    \/ HandleInitRemote
    \/ HandlePrepare
    \/ QueryConfigsReplyRemoteName
    \/ RunPanic
    \/ RunExit

SpecInitRemote == Init /\ [][NextInitRemote]_vars

(***************************************************************************)
(* What the properties are stated in: the lines of the wire protocol as    *)
(* sequences of tokens separated by single spaces, and the window io of    *)
(* the exchange that belongs to the command being handled.                 *)
(***************************************************************************)
RECURSIVE Split(_)
\* the pieces of l between its spaces
Split(l) ==
    IF FirstSpace(l) = 0 THEN <<l>>
    ELSE <<SubSeq(l, 1, FirstSpace(l) - 1)>>
            \o Split(SubSeq(l, FirstSpace(l) + 1, Len(l)))

\* the tokens of a line, its line end dropped
Tokens(line) == Split(TrimRight(line))

\* the first token of a line
Kw(line) == Tokens(line)[1]

\* the events of io written to the outbound stream, and their lines
OutOf(t) == SelectSeq(t, LAMBDA e : e.dir = "out")
OutLines == [i \in 1..Len(OutOf(io)) |-> OutOf(io)[i].line]

\* the lines among ls whose first token is one of kws
LinesOf(ls, kws) == SelectSeq(ls, LAMBDA l : Kw(l) \in kws)

\* run is handling (or has handled, and not yet read the next command) a
\* command line whose first token is c
Handling(c) ==
    /\ Len(io) >= 1
    /\ io[1].dir = "in"
    /\ io[1].kind = "line"
    /\ Kw(io[1].line) = c

\* the tokens of the command line being handled
CmdTokens == Tokens(io[1].line)

\* in a step: the lines the step writes to the outbound stream
NewOut ==
    LET new == IF pc = "loop" THEN io' ELSE SubSeq(io', Len(io) + 1, Len(io'))
    IN  [i \in 1..Len(OutOf(new)) |-> OutOf(new)[i].line]

\* the Storage Delegate call number i of the command being handled is op
Called(i, op) == Len(calls) >= i /\ calls[i].op = op

(***************************************************************************)
(* Config resolution.                                                      *)
(***************************************************************************)
\* C1: once the configs are resolved (configsDone), they stay resolved and no
\* step of the session, whatever command it handles, writes a GETCONFIG line.
C1_ResolvedNeverAsksAgain ==
    [][configsDone =>
        /\ configsDone'
        /\ pc' # "getconfig"
        /\ \A i \in 1..Len(NewOut) : Kw(NewOut[i]) # <<"GETCONFIG">>]_vars

\* a command that invokes the resolution was answered with the configs
\* already resolved: a TRANSFER went straight to the store, no query sent
C1_Witness ==
    /\ configsDone
    /\ Handling(<<"TRANSFER">>)
    /\ Called(3, "CopyFile")
    /\ \A i \in 1..Len(OutLines) : Kw(OutLines[i]) # <<"GETCONFIG">>

\* the GETCONFIG of name n was written in this window, at this place of io
Asked(n) ==
    \E i \in 1..Len(io) :
        io[i].dir = "out" /\ Tokens(io[i].line) = << <<"GETCONFIG">>, n >>
AskedAt(n) ==
    CHOOSE i \in 1..Len(io) :
        io[i].dir = "out" /\ Tokens(io[i].line) = << <<"GETCONFIG">>, n >>

\* the controller answered it with a VALUE line
Answered(n) ==
    /\ Asked(n)
    /\ AskedAt(n) < Len(io)
    /\ io[AskedAt(n) + 1].dir = "in"
    /\ io[AskedAt(n) + 1].kind = "line"
    /\ Kw(io[AskedAt(n) + 1].line) = <<"VALUE">>

\* the value of that answer: what follows "VALUE " on the line
ReplyValue(n) ==
    LET l == TrimRight(io[AskedAt(n) + 1].line)
    IN  IF Len(l) <= 2 THEN <<>> ELSE SubSeq(l, 3, Len(l))

\* the three config definitions as the protocol documents them
C2_Definitions ==
    << [canonical |-> <<"rcloneremotename">>, synonym |-> <<"target">>,
        hasDefault |-> FALSE, default |-> <<>>],
       [canonical |-> <<"rcloneprefix">>, synonym |-> <<"prefix">>,
        hasDefault |-> TRUE, default |-> <<"git-annex-rclone">>],
       [canonical |-> <<"rclonelayout">>, synonym |-> <<"rclone_layout">>,
        hasDefault |-> TRUE, default |-> <<"nodir">>] >>

\* the field of the server that definition d resolves to
C2_Field(d) ==
    CASE d = 1 -> configRcloneRemoteName
      [] d = 2 -> configPrefix
      [] d = 3 -> configRcloneLayout

\* both names of definition d were answered with an empty value
C2_AllEmpty(d) ==
    /\ Answered(C2_Definitions[d].canonical)
    /\ ReplyValue(C2_Definitions[d].canonical) = <<>>
    /\ Answered(C2_Definitions[d].synonym)
    /\ ReplyValue(C2_Definitions[d].synonym) = <<>>

\* C2: when a resolution has completed, each field holds the canonical name's
\* answer if that is not empty, else the synonym's answer if that is not empty,
\* else the default ("git-annex-rclone", "nodir"); and when both names of the
\* definition without a default (rcloneremotename, target) were answered
\* empty, the resolution has failed with an error and the session ends.
C2_SynonymFallback ==
    /\ (configsDone /\ Asked(<<"rcloneremotename">>)) =>
        \A d \in 1..3 :
            LET def == C2_Definitions[d] IN
            /\ Answered(def.canonical)
            /\ IF ReplyValue(def.canonical) # <<>>
               THEN C2_Field(d) = ReplyValue(def.canonical)
               ELSE /\ Answered(def.synonym)
                    /\ IF ReplyValue(def.synonym) # <<>>
                       THEN C2_Field(d) = ReplyValue(def.synonym)
                       ELSE def.hasDefault /\ C2_Field(d) = def.default
    /\ C2_AllEmpty(1) =>
        /\ ~configsDone
        /\ runErr # <<>>
        /\ pc \in {"returned", "panicked"}
        /\ ~Asked(<<"rcloneprefix">>)

\* a resolution in which the remote name came from the synonym "target" and
\* the layout from its default
C2_Witness ==
    /\ configsDone
    /\ Answered(<<"rcloneremotename">>)
    /\ ReplyValue(<<"rcloneremotename">>) = <<>>
    /\ Answered(<<"target">>)
    /\ configRcloneRemoteName = <<"myremote">>
    /\ C2_AllEmpty(3)
    /\ configRcloneLayout = <<"nodir">>

(***************************************************************************)
(* CHECKPRESENT, REMOVE and TRANSFER RETRIEVE.                             *)
(***************************************************************************)
CheckPresentKws ==
    {<<"CHECKPRESENT-SUCCESS">>, <<"CHECKPRESENT-FAILURE">>, <<"CHECKPRESENT-UNKNOWN">>}

\* C3: a CHECKPRESENT that reached the lookup (remoteFs.NewObject) has written
\* exactly one CHECKPRESENT line, for the key it received: -SUCCESS when the
\* lookup found the object (which is then in the store), -FAILURE when it
\* reported not-found, -UNKNOWN (and not -FAILURE) on any other error.
C3_CheckPresentOutcomes ==
    (Handling(<<"CHECKPRESENT">>) /\ Called(2, "NewObject")) =>
        LET n == calls[2].res
            answers == LinesOf(OutLines, CheckPresentKws)
        IN  /\ Len(answers) = 1
            /\ Len(Tokens(answers[1])) >= 2
            /\ Tokens(answers[1])[2] = CmdTokens[2]
            /\ Kw(answers[1]) =
                 (CASE n = "ok" -> <<"CHECKPRESENT-SUCCESS">>
                    [] n = ErrorObjectNotFound -> <<"CHECKPRESENT-FAILURE">>
                    [] OTHER -> <<"CHECKPRESENT-UNKNOWN">>)
            /\ n = "ok" => calls[2].arg \in DOMAIN remoteObjs
            /\ n = ErrorObjectNotFound => calls[2].arg \notin DOMAIN remoteObjs

\* a lookup failed with an error that is not "not found" and the answer was
\* CHECKPRESENT-UNKNOWN
C3_Witness ==
    /\ Handling(<<"CHECKPRESENT">>)
    /\ Called(2, "NewObject")
    /\ calls[2].res = "error"
    /\ Len(LinesOf(OutLines, {<<"CHECKPRESENT-UNKNOWN">>})) = 1

RemoveKws == {<<"REMOVE-SUCCESS">>, <<"REMOVE-FAILURE">>}

\* C4: a REMOVE whose lookup reports the key absent answers REMOVE-SUCCESS
\* <key>, calls no delete and returns no error, so run goes on to the next
\* command; a REMOVE whose lookup finds the object and whose delete succeeds
\* leaves the object out of the store and answers REMOVE-SUCCESS <key>; and
\* whenever REMOVE-SUCCESS was answered the object is absent, so that a second
\* REMOVE of the key finds it absent and answers REMOVE-SUCCESS again.
C4_RemoveIdempotent ==
    (Handling(<<"REMOVE">>) /\ Called(2, "NewObject")) =>
        LET n == calls[2].res
            success == <<Cat(<<"REMOVE-SUCCESS">>, CmdTokens[2]) \o <<LF>> >>
            answers == LinesOf(OutLines, RemoveKws)
        IN  /\ n = ErrorObjectNotFound =>
                /\ answers = success
                /\ Len(calls) = 2
                /\ runErr = <<>>
                /\ pc = "loop"
            /\ (n = "ok" /\ Called(3, "DeleteFile") /\ calls[3].res = "ok") =>
                /\ answers = success
                /\ runErr = <<>>
                /\ pc = "loop"
            /\ n = "ok" => Called(3, "DeleteFile")
            /\ Len(LinesOf(answers, {<<"REMOVE-SUCCESS">>})) > 0 =>
                calls[2].arg \notin DOMAIN remoteObjs

\* a REMOVE found the object, deleted it and answered REMOVE-SUCCESS
C4_Witness ==
    /\ Handling(<<"REMOVE">>)
    /\ Called(3, "DeleteFile")
    /\ calls[3].res = "ok"
    /\ calls[2].arg \notin DOMAIN remoteObjs
    /\ Len(LinesOf(OutLines, {<<"REMOVE-SUCCESS">>})) = 1

TransferKws == {<<"TRANSFER-SUCCESS">>, <<"TRANSFER-FAILURE">>}

\* C5: a TRANSFER RETRIEVE whose copy reports the key absent at the remote has
\* written one line, TRANSFER-FAILURE RETRIEVE <key> ..., and returned no
\* error: run is back at reading the next command.  One whose copy succeeded
\* has left the content of the remote object at the local path and written
\* TRANSFER-SUCCESS RETRIEVE <key>.  No RETRIEVE writes both a failure and a
\* success line.
C5_RetrieveOutcomes ==
    (Handling(<<"TRANSFER">>) /\ Len(CmdTokens) >= 2
        /\ CmdTokens[2] = <<"RETRIEVE">>) =>
        LET answers == LinesOf(OutLines, TransferKws)
            c == calls[3].res
            src == <<calls[3].arg[2], calls[3].arg[3]>>
            dst == calls[3].arg[4]
        IN  /\ LinesOf(answers, {<<"TRANSFER-SUCCESS">>}) = <<>>
               \/ LinesOf(answers, {<<"TRANSFER-FAILURE">>}) = <<>>
            /\ (Called(3, "CopyFile") /\ c = ErrorObjectNotFound) =>
                /\ src \notin DOMAIN remoteObjs
                /\ Len(answers) = 1
                /\ SubSeq(Tokens(answers[1]), 1, 3)
                     = << <<"TRANSFER-FAILURE">>, <<"RETRIEVE">>, CmdTokens[3] >>
                /\ runErr = <<>>
                /\ pc = "loop"
            /\ (Called(3, "CopyFile") /\ c = "ok") =>
                /\ src \in DOMAIN remoteObjs
                /\ dst = SubSeq(TrimRight(io[1].line), 7, Len(TrimRight(io[1].line)))
                /\ dst \in DOMAIN localFiles
                /\ localFiles[dst] = remoteObjs[src]
                /\ Len(answers) = 1
                /\ Tokens(answers[1])
                     = << <<"TRANSFER-SUCCESS">>, <<"RETRIEVE">>, CmdTokens[3] >>
                /\ runErr = <<>>
                /\ pc = "loop"

\* a RETRIEVE of a key that is not at the remote was answered
\* TRANSFER-FAILURE and the session went on
C5_Witness ==
    /\ Handling(<<"TRANSFER">>)
    /\ Called(3, "CopyFile")
    /\ calls[3].arg[1] = "RETRIEVE"
    /\ calls[3].res = ErrorObjectNotFound
    /\ pc = "loop"

(***************************************************************************)
(* Dispatch: unknown commands, EXTENSIONS, the end of the stream.          *)
(***************************************************************************)
\* the command line being handled parsed to a command run has no case for
HandlingUnknown ==
    /\ Len(io) >= 1
    /\ io[1].dir = "in"
    /\ io[1].kind = "line"
    /\ Kw(io[1].line) # <<>>
    /\ Kw(io[1].line) \notin KnownCommands

\* the events of io read from the inbound stream
InOf(t) == SelectSeq(t, LAMBDA e : e.dir = "in")

\* C6 as stated: once an unknown command has been read, no line at all is
\* written to the outbound stream.
C6_NothingWrittenAfterUnknown ==
    HandlingUnknown => OutLines = <<>>

\* C6, amended: an unknown command makes run return a protocol error that
\* names the message, without a Storage Delegate call and without a line of
\* its own, and no further command is read; the one line that follows on
\* the outbound stream is the ERROR line with which Run reports the error
\* before it panics.
C6_UnknownCommandEnds ==
    HandlingUnknown =>
        /\ pc \in {"returned", "panicked"}
        /\ runErr # <<>>
        /\ SubSeq(runErr, 1, 9) = Join(<<"received", "unexpected", "message",
                                         "from", "git-annex:">>)
        /\ calls = <<>>
        /\ Len(InOf(io)) = 1
        /\ pc = "returned" => OutLines = <<>>
        /\ pc = "panicked" => OutLines = <<Cat(<<"ERROR">>, runErr) \o <<LF>> >>

\* FROBNICATE was read and the process has panicked after its ERROR line
C6_Witness ==
    /\ HandlingUnknown
    /\ Kw(io[1].line) = <<"FROBNICATE">>
    /\ pc = "panicked"
    /\ Len(OutLines) = 1

RECURSIVE UpToEmpty(_)
\* the tokens of ts before its first empty one: the tokens the tokenizer
\* yields before it fails
UpToEmpty(ts) ==
    IF ts = <<>> \/ Head(ts) = <<>> THEN <<>>
    ELSE <<Head(ts)>> \o UpToEmpty(Tail(ts))

\* the tokens of a message after its keyword
Names(line) ==
    LET ts == UpToEmpty(Tail(Tokens(line)))
    IN  { ts[i] : i \in 1..Len(ts) }

\* C7: the step that handles an EXTENSIONS message sets the flags whose names
\* are among the tokens of the message and leaves the other flags as they
\* were, whatever other tokens the message holds; it changes no config state
\* and no stored object, returns no error, and writes exactly one line, an
\* EXTENSIONS line with no names.
C7_ExtensionsFrame ==
    [][(/\ pc = "loop"
        /\ Len(io') >= 1
        /\ io'[1].kind = "line"
        /\ Kw(io'[1].line) = <<"EXTENSIONS">>) =>
            LET names == Names(io'[1].line) IN
            /\ extensionInfo' = (extensionInfo \/ <<"INFO">> \in names)
            /\ extensionAsync' = (extensionAsync \/ <<"ASYNC">> \in names)
            /\ extensionGetGitRemoteName'
                 = (extensionGetGitRemoteName \/ <<"GETGITREMOTENAME">> \in names)
            /\ extensionUnavailableResponse'
                 = (extensionUnavailableResponse \/ <<"UNAVAILABLERESPONSE">> \in names)
            /\ UNCHANGED <<cfgVars, storeVars>>
            /\ NewOut = << <<"EXTENSIONS", LF>> >>
            /\ runErr' = <<>>
            /\ pc' = "loop"]_vars

\* EXTENSIONS FOO ASYNC was handled in a session that had no flag set, and
\* only the async flag is set
C7_Witness ==
    /\ Handling(<<"EXTENSIONS">>)
    /\ CmdTokens = << <<"EXTENSIONS">>, <<"FOO">>, <<"ASYNC">> >>
    /\ extensionAsync
    /\ ~extensionInfo /\ ~extensionGetGitRemoteName /\ ~extensionUnavailableResponse
    /\ OutLines = << <<"EXTENSIONS", LF>> >>

\* C8: when the read for the next command meets the end of the stream with no
\* byte pending, run returns nil and nothing is written from then on; when
\* the stream ends in a line without its newline, run returns an error.
C8_EndOfStream ==
    /\ (Len(io) >= 1 /\ io[1].dir = "in" /\ io[1].kind = "eof") =>
        /\ pc \in {"returned", "exited"}
        /\ runErr = <<>>
        /\ Len(io) = 1
    /\ (Len(io) >= 1 /\ io[1].dir = "in" /\ io[1].kind = "partial") =>
        /\ pc \in {"returned", "panicked"}
        /\ runErr # <<>>

\* the stream ended between two commands and the process has exited without
\* an error
C8_Witness ==
    /\ io = <<In(EndOfStream)>>
    /\ pc = "exited"
    /\ runErr = <<>>

(***************************************************************************)
(* The failure responses of the handlers.                                  *)
(***************************************************************************)
HandlerCommands ==
    {<<"INITREMOTE">>, <<"PREPARE">>, <<"TRANSFER">>, <<"CHECKPRESENT">>, <<"REMOVE">>}

\* the failure responses of command c
FailureKws(c) ==
    CASE c = <<"INITREMOTE">> -> {<<"INITREMOTE-FAILURE">>}
      [] c = <<"PREPARE">> -> {<<"PREPARE-FAILURE">>}
      [] c = <<"TRANSFER">> -> {<<"TRANSFER-FAILURE">>}
      [] c = <<"CHECKPRESENT">> -> {<<"CHECKPRESENT-FAILURE">>, <<"CHECKPRESENT-UNKNOWN">>}
      [] c = <<"REMOVE">> -> {<<"REMOVE-FAILURE">>}

\* C9 as stated: when the handler of INITREMOTE, PREPARE, TRANSFER,
\* CHECKPRESENT or REMOVE has returned an error, a failure line of that
\* command has been written while it handled the command.
C9_FailureLineBeforeError ==
    \A c \in HandlerCommands :
        (Handling(c) /\ pc = "returned" /\ runErr # <<>>) =>
            LinesOf(OutLines, FailureKws(c)) # <<>>

\* C10 as stated: every TRANSFER-SUCCESS and TRANSFER-FAILURE line carries
\* the mode and the key of the TRANSFER it answers as its second and third
\* tokens, and every CHECKPRESENT-* and REMOVE-* line carries the key of its
\* command as its second token.
C10_ResponsesEchoModeAndKey ==
    \A i \in 1..Len(OutLines) :
        LET l == OutLines[i] IN
        /\ (Handling(<<"TRANSFER">>) /\ Len(CmdTokens) >= 3 /\ Kw(l) \in TransferKws) =>
            /\ Len(Tokens(l)) >= 3
            /\ Tokens(l)[2] = CmdTokens[2]
            /\ Tokens(l)[3] = CmdTokens[3]
        /\ (Handling(<<"CHECKPRESENT">>) /\ Len(CmdTokens) >= 2
                /\ Kw(l) \in CheckPresentKws) =>
            /\ Len(Tokens(l)) >= 2
            /\ Tokens(l)[2] = CmdTokens[2]
        /\ (Handling(<<"REMOVE">>) /\ Len(CmdTokens) >= 2 /\ Kw(l) \in RemoveKws) =>
            /\ Len(Tokens(l)) >= 2
            /\ Tokens(l)[2] = CmdTokens[2]

(***************************************************************************)
(* Reverse queries.                                                        *)
(***************************************************************************)
QueryKws == {<<"GETCONFIG">>, <<"DIRHASH">>, <<"DIRHASH-LOWER">>}

\* event i of io is a query line sent to the controller
IsQuery(i) == io[i].dir = "out" /\ Kw(io[i].line) \in QueryKws

\* C11: a query line (GETCONFIG, DIRHASH) is followed on the streams by one
\* read from the inbound stream and by nothing else before it: while the
\* query is the last event the server is blocked in that read, and the event
\* after a query is never an outbound line nor followed by a second read.
\* The server is blocked in such a read only with its query as last event.
C11_OneQueryOutstanding ==
    /\ \A i \in 1..Len(io) :
        IsQuery(i) =>
            /\ i = Len(io) => pc \in {"getconfig", "dirhash"}
            /\ i < Len(io) => io[i + 1].dir = "in"
            /\ i + 1 < Len(io) => io[i + 2].dir = "out"
    /\ pc \in {"getconfig", "dirhash"} => (Len(io) >= 1 /\ IsQuery(Len(io)))

\* a second query is outstanding after the first was answered: the handler
\* waits for the answer to DIRHASH after its GETCONFIG exchanges
C11_Witness ==
    /\ pc = "dirhash"
    /\ \E i \in 1..Len(io) : Kw(io[i].line) = <<"GETCONFIG">> /\ io[i].dir = "out"
    /\ IsQuery(Len(io))

(***************************************************************************)
(* Which negative outcomes end the session.                                *)
(***************************************************************************)
\* the failure responses of the handlers
AllFailureKws == UNION { FailureKws(c) : c \in HandlerCommands }

\* run has returned an error, which ends the session
Terminated == runErr # <<>> /\ pc \in {"returned", "panicked"}

\* the command being handled met an object that is not there
ObjectNotFound ==
    \/ /\ Handling(<<"TRANSFER">>)
       /\ Called(3, "CopyFile")
       /\ calls[3].arg[1] = "RETRIEVE"
       /\ calls[3].res = ErrorObjectNotFound
    \/ /\ Handling(<<"REMOVE">>) \/ Handling(<<"CHECKPRESENT">>)
       /\ Called(2, "NewObject")
       /\ calls[2].res = ErrorObjectNotFound

\* C12 as stated: CHECKPRESENT of an absent key, answered
\* CHECKPRESENT-FAILURE, is also returned as an error that ends the session.
C12_CheckPresentAbsentTerminates ==
    (Handling(<<"CHECKPRESENT">>)
        /\ LinesOf(OutLines, {<<"CHECKPRESENT-FAILURE">>}) # <<>>) => Terminated

\* C12, amended: the object-not-found outcomes of TRANSFER RETRIEVE, REMOVE
\* and CHECKPRESENT and the unsupported-request commands leave the session
\* running: no error is returned and run reads the next command.  Every
\* other failure response of a handler, INITREMOTE-FAILURE for an unknown
\* remote or backend among them, comes with a returned error that ends the
\* session.
C12_OnlyNotFoundContinues ==
    /\ ObjectNotFound => (runErr = <<>> /\ pc = "loop")
    /\ (Handling(<<"CHECKPRESENT">>) /\ ObjectNotFound) =>
            Len(LinesOf(OutLines, {<<"CHECKPRESENT-FAILURE">>})) = 1
    /\ LinesOf(OutLines, {<<"UNSUPPORTED-REQUEST">>}) # <<>> =>
            (runErr = <<>> /\ pc = "loop")
    /\ \A c \in {<<"CLAIMURL">>, <<"CHECKURL">>, <<"WHEREIS">>, <<"GETINFO">>} :
            Handling(c) => OutLines = << <<"UNSUPPORTED-REQUEST", LF>> >>
    /\ (LinesOf(OutLines, AllFailureKws) # <<>> /\ ~ObjectNotFound) => Terminated
    /\ (Handling(<<"INITREMOTE">>)
            /\ LinesOf(OutLines, {<<"INITREMOTE-FAILURE">>}) # <<>>) => Terminated

\* a CHECKPRESENT of an absent key was answered CHECKPRESENT-FAILURE and the
\* session goes on
C12_Witness ==
    /\ Handling(<<"CHECKPRESENT">>)
    /\ ObjectNotFound
    /\ LinesOf(OutLines, {<<"CHECKPRESENT-FAILURE">>}) # <<>>
    /\ pc = "loop"

(***************************************************************************)
(* INITREMOTE.                                                             *)
(***************************************************************************)
\* name starts with ":"
StartsWithColon(name) == Len(name) > 0 /\ name[1] = ":"

\* (a) name, or name less one trailing ":", is a known remote
IsKnownRemote(name) ==
    \E n \in GetRemoteNames : name = n \/ name = n \o <<":">>

\* (b) name starts with ":", parses as a backend locator without a path, and
\* its backend exists
IsBackend(name) ==
    /\ StartsWithColon(name)
    /\ ~fspathParse(name).err
    /\ fspathParse(name).Path = <<>>
    /\ Tail(fspathParse(name).Name) \in Backends

\* the cause INITREMOTE-FAILURE gives for a name that is neither
InitRemoteCause(name) ==
    CASE ~StartsWithColon(name) ->
            Join(<<"remote", "does", "not", "exist:">>) \o <<SP>> \o name
      [] StartsWithColon(name) /\ fspathParse(name).err ->
            Join(<<"remote", "could", "not", "be", "parsed", "as", "a", "backend:">>)
                \o <<SP>> \o name
      [] StartsWithColon(name) /\ ~fspathParse(name).err
            /\ fspathParse(name).Path # <<>> ->
            Join(<<"backend", "must", "not", "have", "a", "path:">>) \o <<SP>> \o name
      [] OTHER ->
            Join(<<"backend", "does", "not", "exist:">>) \o <<SP>>
                \o Tail(fspathParse(name).Name)

InitRemoteKws == {<<"INITREMOTE-SUCCESS">>, <<"INITREMOTE-FAILURE">>}

\* C13: an INITREMOTE whose configs are resolved, be it the first or a later
\* one of the session, has answered INITREMOTE-SUCCESS and returned no error
\* when the remote name is (a) a known remote, with or without a trailing
\* ":", or (b) a backend locator without a path whose backend exists; for
\* any other name it has answered INITREMOTE-FAILURE with the cause and
\* returned that cause as an error.  The answer depends on the resolved name
\* alone, so a repeated INITREMOTE is answered as the one before it.
C13_InitRemoteReply ==
    (Handling(<<"INITREMOTE">>) /\ configsDone) =>
        LET name == configRcloneRemoteName
            answers == LinesOf(OutLines, InitRemoteKws)
        IN  IF IsKnownRemote(name) \/ IsBackend(name)
            THEN /\ answers = << <<"INITREMOTE-SUCCESS", LF>> >>
                 /\ runErr = <<>>
                 /\ pc = "loop"
            ELSE /\ answers = << <<"INITREMOTE-FAILURE", SP>>
                                    \o InitRemoteCause(name) \o <<LF>> >>
                 /\ runErr = InitRemoteCause(name)
                 /\ pc \in {"returned", "panicked"}

\* a second INITREMOTE of a session, which asked nothing, was answered
\* INITREMOTE-SUCCESS for the remote name "myremote:"
C13_Witness ==
    /\ Handling(<<"INITREMOTE">>)
    /\ configsDone
    /\ configRcloneRemoteName = <<"myremote", ":">>
    /\ io = <<io[1], [dir |-> "out", kind |-> "line",
                      line |-> <<"INITREMOTE-SUCCESS", LF>>]>>

\* an INITREMOTE for a backend locator with a path was refused
C13_WitnessPath ==
    /\ Handling(<<"INITREMOTE">>)
    /\ configsDone
    /\ configRcloneRemoteName = <<":", "local", ":", "/", "data">>
    /\ pc = "panicked"

(***************************************************************************)
(* The config fields and the extension flags over a session.               *)
(***************************************************************************)
configFields == <<configRcloneRemoteName, configPrefix, configRcloneLayout>>

\* C14: a step changes a config field only when the field is still unset
\* (empty, as at the start of the session) and the configs are not yet
\* resolved, and it never leaves a field it has set empty: so each field is
\* written at most once in a session, and once configsDone is set no field
\* changes again, whatever commands follow.
C14_FieldsWrittenOnce ==
    [][/\ \A f \in 1..3 :
            configFields'[f] # configFields[f] =>
                /\ configFields[f] = <<>>
                /\ configFields'[f] # <<>>
                /\ ~configsDone
       /\ configsDone => (configsDone' /\ configFields' = configFields)]_vars

\* the configs are resolved, all three fields are set, and a later command,
\* which asked for no config, has been handled
C14_Witness ==
    /\ configsDone
    /\ \A f \in 1..3 : configFields[f] # <<>>
    /\ Handling(<<"TRANSFER">>)
    /\ LinesOf(OutLines, {<<"GETCONFIG">>}) = <<>>
    /\ LinesOf(OutLines, TransferKws) # <<>>

\* an extension flag is set: the session has handled an EXTENSIONS message
SomeFlagSet ==
    \/ extensionInfo
    \/ extensionAsync
    \/ extensionGetGitRemoteName
    \/ extensionUnavailableResponse

\* C15 as stated: once an EXTENSIONS message has been handled (here: one
\* that set a flag), no later step changes any of the four flags.
C15_FlagsFrozen ==
    [][SomeFlagSet => UNCHANGED extVars]_vars

\* C15, amended: a flag that is set stays set for the rest of the session,
\* and the flags change only in a step that handles an EXTENSIONS message;
\* a further EXTENSIONS message sets the flags it names on top of those set
\* before.
C15_FlagsOnlySet ==
    [][/\ extensionInfo => extensionInfo'
       /\ extensionAsync => extensionAsync'
       /\ extensionGetGitRemoteName => extensionGetGitRemoteName'
       /\ extensionUnavailableResponse => extensionUnavailableResponse'
       /\ extVars' # extVars =>
            /\ pc = "loop"
            /\ io'[1].dir = "in"
            /\ io'[1].kind = "line"
            /\ Kw(io'[1].line) = <<"EXTENSIONS">>]_vars

\* EXTENSIONS FOO ASYNC has been handled in a session in which another
\* EXTENSIONS message had set the info flag: both flags are set
C15_Witness ==
    /\ Handling(<<"EXTENSIONS">>)
    /\ CmdTokens = << <<"EXTENSIONS">>, <<"FOO">>, <<"ASYNC">> >>
    /\ extensionAsync
    /\ extensionInfo

(***************************************************************************)
(* The order of the GETCONFIG queries.                                     *)
(***************************************************************************)
\* the names in registry order, canonical name before synonym
C16_Order ==
    << <<"rcloneremotename">>, <<"target">>, <<"rcloneprefix">>, <<"prefix">>,
       <<"rclonelayout">>, <<"rclone_layout">> >>

\* the names asked for while the command is handled, in the order asked
C16_Asks ==
    LET ls == LinesOf(OutLines, {<<"GETCONFIG">>})
    IN  [i \in 1..Len(ls) |-> Tokens(ls[i])[2]]

\* the place of name n in the registry order
C16_Pos(n) == CHOOSE k \in 1..Len(C16_Order) : C16_Order[k] = n

\* definition d got a value: from its canonical name, from its synonym, or,
\* both being empty, from its default
C16_Resolved(d) ==
    LET def == C2_Definitions[d] IN
    \/ Answered(def.canonical) /\ ReplyValue(def.canonical) # <<>>
    \/ Answered(def.synonym) /\ (ReplyValue(def.synonym) # <<>> \/ def.hasDefault)

\* C16: the GETCONFIG lines of a resolution name the six config names in
\* registry order, each at most once; the synonym of a definition is asked
\* if and only if its canonical name was answered with an empty VALUE; the
\* next definition is asked if and only if the one before it got a value;
\* and a resolution that completes has sent between 3 and 6 GETCONFIG lines.
C16_QueryOrder ==
    LET asks == C16_Asks IN
    /\ \A i \in 1..Len(asks) : \E k \in 1..Len(C16_Order) : C16_Order[k] = asks[i]
    /\ \A i, j \in 1..Len(asks) : i < j => C16_Pos(asks[i]) < C16_Pos(asks[j])
    /\ Len(asks) > 0 => asks[1] = C16_Order[1]
    /\ \A d \in 1..3 :
        Asked(C2_Definitions[d].synonym) <=>
            /\ Answered(C2_Definitions[d].canonical)
            /\ ReplyValue(C2_Definitions[d].canonical) = <<>>
    /\ \A d \in 2..3 :
        Asked(C2_Definitions[d].canonical) <=> C16_Resolved(d - 1)
    /\ (configsDone /\ Len(asks) > 0) =>
        /\ C16_Resolved(3)
        /\ Len(asks) >= 3
        /\ Len(asks) <= 6

\* a resolution completed after all six names were asked, in order
C16_Witness ==
    /\ configsDone
    /\ C16_Asks = C16_Order

\* a resolution completed after the three canonical names were asked
C16_WitnessCanonical ==
    /\ configsDone
    /\ C16_Asks = <<C16_Order[1], C16_Order[3], C16_Order[5]>>

(***************************************************************************)
(* Answers to GETCONFIG that are not VALUE lines.                          *)
(***************************************************************************)
\* event i of io is a line that answers a GETCONFIG and whose first token is
\* not VALUE (an empty line has no token)
C17_BadReply(i) ==
    /\ i > 1
    /\ io[i].dir = "in"
    /\ io[i].kind = "line"
    /\ io[i - 1].dir = "out"
    /\ Kw(io[i - 1].line) = <<"GETCONFIG">>
    /\ Kw(io[i].line) # <<"VALUE">>

\* C17: when a GETCONFIG was answered by a line whose first token is not
\* VALUE, no GETCONFIG and no read follows that line, configsDone is not
\* set, and run has returned an error; and whenever a resolution has set
\* configsDone, all three definitions had got a value.
C17_BadReplyAborts ==
    /\ \A i \in 1..Len(io) :
        C17_BadReply(i) =>
            /\ \A k \in (i + 1)..Len(io) :
                io[k].dir = "out" /\ Kw(io[k].line) # <<"GETCONFIG">>
            /\ ~configsDone
            /\ runErr # <<>>
            /\ pc \in {"returned", "panicked"}
    /\ (configsDone /\ Len(C16_Asks) > 0) => \A d \in 1..3 : C16_Resolved(d)
    /\ pc = "getconfig" => ~configsDone

\* the second GETCONFIG of a PREPARE was answered by an ERROR line and the
\* process has panicked with the configs unresolved
C17_Witness ==
    /\ Handling(<<"PREPARE">>)
    /\ Len(io) >= 5
    /\ C17_BadReply(5)
    /\ Kw(io[5].line) = <<"ERROR">>
    /\ ~configsDone
    /\ pc = "panicked"

(***************************************************************************)
(* The first message.                                                      *)
(***************************************************************************)
VersionLine == [dir |-> "out", kind |-> "line", line |-> <<"VERSION", SP, "1", LF>>]

\* C18: before run has sent its first message nothing was read or written,
\* and the first step of a session, which depends on nothing the controller
\* sends, writes the line VERSION 1 and only then lets run read; run never
\* comes back to that point.
C18_VersionFirst ==
    [][/\ pc = "start" =>
            /\ io = <<>>
            /\ io' = <<VersionLine>>
            /\ pc' = "loop"
       /\ pc # "start" => pc' # "start"
       /\ (Len(io') >= 1 /\ io'[1].dir = "in") => pc # "start"]_vars

\* VERSION 1 is the only event of the session so far: run is about to read
\* for the first time
C18_Witness ==
    /\ pc = "loop"
    /\ io = <<VersionLine>>


(***************************************************************************)
(* The tokenizer on lines of three tokens.                                 *)
(***************************************************************************)
\* the command lines of three non-empty tokens separated by single spaces
ThreeTokenLines ==
    { l \in CmdLines :
        /\ Len(Split(l)) = 3
        /\ \A i \in 1..3 : Split(l)[i] # <<>> }

\* the command being handled is such a line
HandlingThreeTokens ==
    /\ Len(io) >= 1
    /\ io[1].dir = "in"
    /\ io[1].kind = "line"
    /\ TrimRight(io[1].line) \in ThreeTokenLines

\* C19 as stated: of a line a b c the third call of
\* nextSpaceDelimitedParameter yields the exhausted condition; for a
\* TRANSFER of three tokens that is the call for the key, so the handler
\* would have no key and return "nothing remains to parse".
C19_ThirdCallExhausted ==
    (HandlingThreeTokens /\ Handling(<<"TRANSFER">>)) =>
        /\ command = CmdTokens[1]
        /\ argMode = CmdTokens[2]
        /\ argKey = <<>>
        /\ runErr = Cat(Join(<<"malformed", "arguments", "for", "TRANSFER:">>),
                        ErrNothingRemains)

\* C19, amended: of a line a b c three successive calls of
\* nextSpaceDelimitedParameter yield a, b and c, and it is the fourth call
\* that yields "nothing remains to parse".  The handlers see it so: a TRANSFER
\* of three tokens has its mode and its key, and EXTENSIONS FOO ASYNC sets the
\* async flag.
C19_ThreeCallsThreeTokens ==
    /\ \A l \in ThreeTokenLines :
        LET p1 == nextSpaceDelimitedParameter(l \o <<LF>>)
            p2 == nextSpaceDelimitedParameter(p1.line)
            p3 == nextSpaceDelimitedParameter(p2.line)
            p4 == nextSpaceDelimitedParameter(p3.line)
        IN  /\ <<p1.param, p2.param, p3.param>> = Split(l)
            /\ p1.err = <<>> /\ p2.err = <<>> /\ p3.err = <<>>
            /\ p4.param = <<>>
            /\ p4.err = ErrNothingRemains
    /\ (HandlingThreeTokens /\ Handling(<<"TRANSFER">>)) =>
        /\ command = CmdTokens[1]
        /\ argMode = CmdTokens[2]
        /\ argKey = CmdTokens[3]
    /\ (HandlingThreeTokens /\ Handling(<<"EXTENSIONS">>)
            /\ CmdTokens[3] = <<"ASYNC">>) => extensionAsync

\* TRANSFER STORE k1 was handled: the third call yielded the key k1
C19_Witness ==
    /\ HandlingThreeTokens
    /\ CmdTokens = << <<"TRANSFER">>, <<"STORE">>, <<"k1">> >>
    /\ argMode = <<"STORE">>
    /\ argKey = <<"k1">>


(***************************************************************************)
(* Commands and responses.                                                 *)
(***************************************************************************)
\* C20: whenever run is about to read a command, the last event on the
\* streams is a line the server wrote that is not a query: the VERSION line
\* before the first command, and after it a response written since the
\* command before was read.  So no two command lines are read without an
\* outbound line between them.
C20_ResponseBeforeNextCommand ==
    pc = "loop" =>
        /\ Len(io) >= 1
        /\ io[Len(io)].dir = "out"
        /\ ~IsQuery(Len(io))
        /\ io = <<VersionLine>> \/ (io[1].dir = "in" /\ io[1].kind = "line")

\* GETCOST was answered COST 200 and run is about to read the next command
C20_Witness ==
    /\ pc = "loop"
    /\ Handling(<<"GETCOST">>)
    /\ OutLines = << <<"COST", SP, "200", LF>> >>


(***************************************************************************)
(* REMOVE and the configs.                                                 *)
(***************************************************************************)
\* a REMOVE of a key in a session that has not resolved its configs finds
\* the three fields empty; the empty layout is no layout mode, so it is
\* answered REMOVE-FAILURE <key> without a Storage Delegate call, and run
\* returns the error
RemoveOnUnsetConfigs ==
    (Handling(<<"REMOVE">>) /\ ~configsDone /\ Len(CmdTokens) >= 2) =>
        /\ configFields = << <<>>, <<>>, <<>> >>
        /\ OutOf(io) # <<>>
        /\ OutLines[1] = Cat(<<"REMOVE-FAILURE">>, CmdTokens[2]) \o <<LF>>
        /\ calls = <<>>
        /\ Terminated

\* C21: no step taken for a REMOVE (the step that reads it, the step that
\* reads the answer to its DIRHASH) sends a GETCONFIG line, waits for a
\* config value or changes configsDone or a config field.  A REMOVE that
\* comes before the configs are resolved therefore works on the empty
\* remote name, prefix and layout, and fails on the layout.
C21_RemoveLeavesConfigs ==
    [][(/\ Len(io') >= 1
        /\ io'[1].dir = "in"
        /\ io'[1].kind = "line"
        /\ Kw(io'[1].line) = <<"REMOVE">>
        /\ pc \in {"loop", "dirhash"}) =>
            /\ configsDone' = configsDone
            /\ configFields' = configFields
            /\ pc' # "getconfig"
            /\ RemoveOnUnsetConfigs'
            /\ \A i \in 1..Len(io') :
                ~(io'[i].dir = "out" /\ Kw(io'[i].line) = <<"GETCONFIG">>)]_vars

\* a REMOVE of k1 was the first command of a session: it asked for no
\* config and failed on the empty layout
C21_Witness ==
    /\ Handling(<<"REMOVE">>)
    /\ CmdTokens = << <<"REMOVE">>, <<"k1">> >>
    /\ ~configsDone
    /\ configRcloneLayout = <<>>
    /\ LinesOf(OutLines, {<<"REMOVE-FAILURE">>}) # <<>>
    /\ LinesOf(OutLines, {<<"GETCONFIG">>}) = <<>>

(***************************************************************************)
(* End of stream inside a reverse query.                                   *)
(***************************************************************************)
\* the read that follows a query line met the end of the stream with no
\* bytes: getMsg handed back no message and no error
EofAfterQuery ==
    \E i \in 1..(Len(io) - 1) :
        /\ IsQuery(i)
        /\ io[i + 1].dir = "in"
        /\ io[i + 1].kind = "eof"

\* the session ended cleanly: run returned no error and Run did not panic
CleanEnd == pc = "exited" \/ (pc = "returned" /\ runErr = <<>>)

\* C22 as stated: when the stream ends with no bytes on the read for the
\* answer to a GETCONFIG or DIRHASH query, the query fails with a returned
\* error and the session terminates through that error, the missing answer
\* is not tokenized (the nil message is never dereferenced), and a clean end
\* is reported only when the end of stream is met on the read for the next
\* command.
C22_EofInQueryReturnsError ==
    /\ EofAfterQuery => (Terminated /\ pc # "crashed")
    /\ CleanEnd => io = <<In(EndOfStream)>>

\* What the code does instead: queryConfigs and queryDirhash test only the
\* error of getMsg and then call nextSpaceDelimitedParameter on the nil
\* message.  The process dies in that dereference: no error is returned, no
\* line is sent after the query, and Run writes no ERROR line.
C22_EofInQueryCrashes ==
    EofAfterQuery =>
        /\ pc = "crashed"
        /\ runErr = <<>>
        /\ io[Len(io)].kind = "eof"
        /\ IsQuery(Len(io) - 1)

C22_WitnessGetConfig ==
    /\ EofAfterQuery
    /\ Handling(<<"PREPARE">>)
    /\ Kw(io[Len(io) - 1].line) = <<"GETCONFIG">>

C22_WitnessDirhash ==
    /\ EofAfterQuery
    /\ Handling(<<"CHECKPRESENT">>)
    /\ Kw(io[Len(io) - 1].line) = <<"DIRHASH-LOWER">>

====
